---- MODULE Spec2Model ----
(***************************************************************************)
(* git-assure: the repository risk analysis of src/src/analyzer.js         *)
(* (analyzeGitHubRepository), modelled as a state machine.                 *)
(*                                                                         *)
(* Specifications:                                                         *)
(*   SpecScore     the risk-score section (analyzer.js 766-970) run rule   *)
(*                 by rule over a bounded set of collected facts;          *)
(*   Spec          one whole run of analyzeGitHubRepository: identity      *)
(*                 parse, primary fetch, auxiliary fetches, dependency     *)
(*                 stages, scoring and the returned result;                *)
(*   SpecOutdated  the registry stage over bounded version numbers;        *)
(*   SpecParse     the manifest parsers over manifests of bounded length;  *)
(*   SpecLookup    the whole run on a repository of NumLookupDeps          *)
(*                 dependencies, more than one batch of either lookup;     *)
(*   SpecBatches   the two lookup loops request by request;                *)
(*   SpecCrowded   the whole run, under fairness, on a repository that     *)
(*                 exceeds every cap on the number of requests;            *)
(*   SpecManifests the whole run on repositories holding a package.json    *)
(*                 and a requirements.txt;                                 *)
(*   SpecSeverity  determineSeverity over bounded OSV records;             *)
(*   SpecAction    the runs of the GitHub Action and of the command line   *)
(*                 on one pull request.                                    *)
(***************************************************************************)
EXTENDS Integers, Sequences, FiniteSets, TLC

VARIABLES
    pc,            \* position in analyzeGitHubRepository
    facts,         \* the values the scoring section reads
    step,          \* index of the next scoring statement
    riskScore,     \* let riskScore
    riskFactors,   \* const riskFactors = []
    riskRating,    \* let riskRating
    repoUrl,       \* the argument of analyzeGitHubRepository
    githubToken,   \* whether process.env.GH_TOKEN is set
    world,         \* what the remote services hold for this run
    faults,        \* requests so far that failed on the way (status or network)
    requests,      \* every request issued so far, in order
    local,         \* the function's local variables, as they get assigned
    dependencyAnalysis,  \* let dependencyAnalysis
    result         \* the returned object

runVars == <<repoUrl, githubToken, world, faults, requests, local, dependencyAnalysis, result>>

vars == <<pc, facts, step, riskScore, riskFactors, riskRating, runVars>>

(***************************************************************************)
(* JavaScript null, and comparisons against it as the scoring code makes   *)
(* them: null > 0 and null < n are decided by the callers below, which     *)
(* test for Null first wherever the code's outcome depends on it.          *)
(***************************************************************************)
Null == 0 - 1

\* x > n in JavaScript for x a count or null: null > n is false for n >= 0
JsGt(x, n) == x # Null /\ x > n

(***************************************************************************)
(* License risk (analyzer.js 57-75).  A license name is a string; the      *)
(* code tests it with String.includes against two keyword lists, so each   *)
(* name of the model carries the keywords it contains as substrings.       *)
(***************************************************************************)
permissiveLicenses == {"MIT", "Apache", "BSD", "ISC", "CC0"}
restrictiveLicenses == {"GPL", "AGPL", "LGPL", "MPL"}

\* the keywords of either list, and "Proprietary", that occur in the name
LicenseSubstrings(name) ==
    CASE name = "MIT License" -> {"MIT"}
      [] name = "Apache License 2.0" -> {"Apache"}
      [] name = "GNU GPLv3" -> {"GPL"}
      [] name = "GNU General Public License v3.0" -> {}
      [] name = "Proprietary License" -> {"Proprietary"}
      [] name = "UNLICENSED" -> {}
      [] OTHER -> {}

LicenseNames ==
    {"MIT License", "Apache License 2.0", "GNU GPLv3",
     "GNU General Public License v3.0", "Proprietary License", "UNLICENSED"}

\* repoInfo.license: Null when the repository has none, else its name
\* let license = 'Unknown'; if (repoInfo.license && repoInfo.license.name) ...
LicenseOf(repoLicense) == IF repoLicense = "null" THEN "Unknown" ELSE repoLicense

\* LicenseRiskOf with the restrictive list rated High
LicenseRiskOfRestrictiveHigh(repoLicense) ==
    IF repoLicense = "null" THEN "Medium"
    ELSE IF LicenseSubstrings(repoLicense) \cap permissiveLicenses # {} THEN "Low"
    ELSE IF LicenseSubstrings(repoLicense) \cap restrictiveLicenses # {} THEN "High"
    ELSE IF "Proprietary" \in LicenseSubstrings(repoLicense)
            \/ repoLicense = "UNLICENSED" THEN "High"
    ELSE "Medium"

LicenseRiskOf(repoLicense) ==
    IF repoLicense = "null" THEN "Medium"
    ELSE IF LicenseSubstrings(repoLicense) \cap permissiveLicenses # {} THEN "Low"
    ELSE IF LicenseSubstrings(repoLicense) \cap restrictiveLicenses # {} THEN "Medium"
    ELSE IF "Proprietary" \in LicenseSubstrings(repoLicense)
            \/ repoLicense = "UNLICENSED" THEN "High"
    ELSE "Medium"

(***************************************************************************)
(* Code complexity from repoInfo.size (analyzer.js 754-764).               *)
(***************************************************************************)
CodeComplexityOf(size) ==
    IF size = 0 THEN "Difficult to assess via API."
    ELSE IF size < 500 THEN "Likely low complexity (based on size)."
    ELSE IF size < 5000 THEN "Potentially moderate complexity (based on size)."
    ELSE "Likely high complexity (based on size)."

(***************************************************************************)
(* The risk-score section (analyzer.js 766-960): 25 statements, each an    *)
(* if / else-if chain that adds at most one weight and pushes at most one  *)
(* message.  Statement(i, f) is what statement i does on the facts f:      *)
(* whether a branch is taken, the weight it adds, the message it pushes    *)
(* and the number it interpolates into the message (Null when none).       *)
(***************************************************************************)
NumStatements == 25

Fires(w, m, n) == [fires |-> TRUE, weight |-> w, msg |-> m, n |-> n]
Skips == [fires |-> FALSE, weight |-> 0, msg |-> "", n |-> Null]

Statement(i, f) ==
    CASE i = 1 ->
           IF f.numberOfContributors < 2
             THEN Fires(3, "Low number of contributors.", Null)
           ELSE IF f.numberOfContributors < 5
             THEN Fires(1, "Relatively low number of contributors.", Null)
           ELSE Skips
      [] i = 2 ->
           IF f.averageContributorAgeInDays # Null
             THEN IF f.averageContributorAgeInDays < 180
                    THEN Fires(2, "Contributors have relatively new GitHub accounts (< 6 months).", Null)
                  ELSE IF f.averageContributorAgeInDays < 365
                    THEN Fires(1, "Contributors have moderately new GitHub accounts (< 1 year).", Null)
                  ELSE Skips
           ELSE Skips
      [] i = 3 ->
           IF f.ageInDays < 365 THEN Fires(1, "Relatively young project.", Null) ELSE Skips
      [] i = 4 ->
           IF f.daysSinceLastCommit = Null \/ f.daysSinceLastCommit > 90
             THEN Fires(2, "Infrequent recent contributions.", Null)
           ELSE IF f.daysSinceLastCommit > 30
             THEN Fires(1, "Potentially infrequent recent contributions.", Null)
           ELSE Skips
      [] i = 5 ->
           IF f.license = "Unknown" THEN Fires(3, "No license found.", Null)
           ELSE IF f.licenseRisk = "High"
             THEN Fires(2, "Restrictive license may limit usage.", Null)
           ELSE IF f.licenseRisk = "Medium"
             THEN Fires(1, "License has some usage restrictions.", Null)
           ELSE Skips
      [] i = 6 ->
           IF ~f.hasDependencyFile
             THEN Fires(1, "No dependency management file found.", Null) ELSE Skips
      [] i = 7 ->
           IF ~f.hasTestDirectory THEN Fires(2, "No test directory found.", Null) ELSE Skips
      [] i = 8 ->
           IF ~f.hasCiSetup THEN Fires(1, "No CI/CD configuration found.", Null) ELSE Skips
      [] i = 9 ->
           IF ~f.hasReadme THEN Fires(2, "No README file found.", Null) ELSE Skips
      [] i = 10 ->
           IF ~f.hasDocDirectory /\ ~f.hasReadme
             THEN Fires(1, "Limited documentation.", Null) ELSE Skips
      [] i = 11 ->
           IF ~f.releaseInfo.hasReleases THEN Fires(1, "No formal releases found.", Null)
           ELSE IF JsGt(f.releaseInfo.daysSinceLastRelease, 365)
             THEN Fires(2, "No releases in over a year.", Null)
           ELSE IF ~f.releaseInfo.usesSemanticVersioning
             THEN Fires(1, "Not using semantic versioning.", Null)
           ELSE Skips
      [] i = 12 ->
           IF f.starCount < 10
             THEN Fires(1, "Low community interest (few stars).", Null) ELSE Skips
      [] i = 13 ->
           IF f.responseTimeMetrics # Null /\ f.responseTimeMetrics > 168
             THEN Fires(2, "Slow response time to issues (>1 week).", Null)
           ELSE IF f.responseTimeMetrics # Null /\ f.responseTimeMetrics > 72
             THEN Fires(1, "Moderate response time to issues (>3 days).", Null)
           ELSE Skips
      [] i = 14 ->
           IF ~f.hasCodeQualityTools
             THEN Fires(1, "No code quality tools found.", Null) ELSE Skips
      [] i = 15 ->
           IF ~f.hasContributingGuidelines
             THEN Fires(1, "No contributing guidelines found.", Null) ELSE Skips
      [] i = 16 ->
           IF f.longLivingPulls > 5
             THEN Fires(2, "Many long-lived open pull requests (n).", f.longLivingPulls)
           ELSE IF f.longLivingPulls > 0
             THEN Fires(1, "Some long-lived open pull requests (n).", f.longLivingPulls)
           ELSE Skips
      [] i = 17 ->
           IF f.longLivingIssues > 10
             THEN Fires(3, "Many long-lived open issues (n).", f.longLivingIssues)
           ELSE IF f.longLivingIssues > 5
             THEN Fires(2, "Several long-lived open issues (n).", f.longLivingIssues)
           ELSE IF f.longLivingIssues > 0
             THEN Fires(1, "Some long-lived open issues (n).", f.longLivingIssues)
           ELSE Skips
      [] i = 18 ->
           IF ~f.hasSecurityPolicy
             THEN Fires(2, "No explicit security policy found.", Null) ELSE Skips
      [] i = 19 ->
           IF f.codeComplexity = "Likely high complexity (based on size)."
             THEN Fires(1, "Potentially high code complexity.", Null) ELSE Skips
      [] i = 20 ->
           IF JsGt(f.dependencyAnalysis.highSeverityCount, 0)
             THEN Fires(3, "n high severity vulnerabilities found.",
                        f.dependencyAnalysis.highSeverityCount)
           ELSE Skips
      [] i = 21 ->
           IF JsGt(f.dependencyAnalysis.mediumSeverityCount, 0)
             THEN Fires(2, "n medium severity vulnerabilities found.",
                        f.dependencyAnalysis.mediumSeverityCount)
           ELSE Skips
      [] i = 22 ->
           IF JsGt(f.dependencyAnalysis.lowSeverityCount, 0)
             THEN Fires(1, "n low severity vulnerabilities found.",
                        f.dependencyAnalysis.lowSeverityCount)
           ELSE Skips
      [] i = 23 ->
           IF f.dependencyAnalysis.hasDependencies /\ ~f.dependencyAnalysis.alertsEnabled
             THEN Fires(1, "Repository has dependencies but vulnerability alerts are not enabled.", Null)
           ELSE Skips
      [] i = 24 ->
           IF f.dependencyAnalysis.majorOutdatedCount > 5
             THEN Fires(3, "Many dependencies are severely outdated (n major versions behind).",
                        f.dependencyAnalysis.majorOutdatedCount)
           ELSE IF f.dependencyAnalysis.majorOutdatedCount > 0
             THEN Fires(2, "Some dependencies are severely outdated (n major versions behind).",
                        f.dependencyAnalysis.majorOutdatedCount)
           ELSE Skips
      [] OTHER ->
           IF f.dependencyAnalysis.minorOutdatedCount > 10
             THEN Fires(1, "Many dependencies need minor version updates (n minor versions behind).",
                        f.dependencyAnalysis.minorOutdatedCount)
           ELSE Skips

\* the weight the section adds together with each message it pushes
FactorWeight(msg) ==
    CASE msg \in {"Low number of contributors.", "No license found.",
                  "Many long-lived open issues (n).",
                  "n high severity vulnerabilities found.",
                  "Many dependencies are severely outdated (n major versions behind)."} -> 3
      [] msg \in {"Contributors have relatively new GitHub accounts (< 6 months).",
                  "Infrequent recent contributions.",
                  "Restrictive license may limit usage.",
                  "No test directory found.", "No README file found.",
                  "No releases in over a year.",
                  "Slow response time to issues (>1 week).",
                  "Many long-lived open pull requests (n).",
                  "Several long-lived open issues (n).",
                  "No explicit security policy found.",
                  "n medium severity vulnerabilities found.",
                  "Some dependencies are severely outdated (n major versions behind)."} -> 2
      [] OTHER -> 1

\* the section run from its first statement through statement k
RECURSIVE RunStatements(_, _)
RunStatements(f, k) ==
    IF k = 0 THEN [riskScore |-> 0, riskFactors |-> <<>>]
    ELSE LET before == RunStatements(f, k - 1)
             s == Statement(k, f)
         IN  IF s.fires
               THEN [riskScore |-> before.riskScore + s.weight,
                     riskFactors |-> Append(before.riskFactors, [msg |-> s.msg, n |-> s.n])]
               ELSE before

\* RatingOf with the Medium band starting at 10
RatingOfMediumFromTen(score) ==
    IF score > 15 THEN "High" ELSE IF score >= 10 THEN "Medium" ELSE "Low"

\* RatingOf with the High band starting at 15
RatingOfHighFromFifteen(score) ==
    IF score >= 15 THEN "High" ELSE IF score > 10 THEN "Medium" ELSE "Low"

\* let riskRating = 'Low'; if (riskScore > 15) ... else if (riskScore > 10) ...
RatingOf(score) ==
    IF score > 15 THEN "High" ELSE IF score > 10 THEN "Medium" ELSE "Low"

(***************************************************************************)
(* What a run has collected when it reaches the risk-score section.  The   *)
(* record keeps the code's names; releaseInfo and the severity counts are  *)
(* records because the code sets their parts together.                     *)
(***************************************************************************)
ReleaseInfos ==
    {[hasReleases |-> FALSE, daysSinceLastRelease |-> Null, usesSemanticVersioning |-> FALSE]}
    \cup [hasReleases : {TRUE}, daysSinceLastRelease : {365, 366},
          usesSemanticVersioning : BOOLEAN]

\* alertsEnabled with the three counts: null until the alerts listing is read
Severities ==
    [alertsEnabled : BOOLEAN, high : {Null}, medium : {Null}, low : {Null}]
    \cup [alertsEnabled : {TRUE}, high : {0, 1, 2}, medium : {0, 1}, low : {0, 1}]

CollectedDomain ==
    [ numberOfContributors |-> {0, 1, 2, 4, 5},
      averageContributorAgeInDays |-> {Null, 179, 180, 364, 365},
      ageInDays |-> {364, 365},
      daysSinceLastCommit |-> {Null, 30, 31, 90, 91},
      repoLicense |-> {"null"} \cup LicenseNames,
      hasDependencyFile |-> BOOLEAN,
      hasTestDirectory |-> BOOLEAN,
      hasCiSetup |-> BOOLEAN,
      hasReadme |-> BOOLEAN,
      hasDocDirectory |-> BOOLEAN,
      releaseInfo |-> ReleaseInfos,
      starCount |-> {9, 10},
      responseTimeMetrics |-> {Null, 72, 73, 168, 169},
      hasCodeQualityTools |-> BOOLEAN,
      hasContributingGuidelines |-> BOOLEAN,
      longLivingPulls |-> {0, 1, 5, 6},
      longLivingIssues |-> {0, 1, 5, 6, 10, 11},
      hasSecurityPolicy |-> BOOLEAN,
      size |-> {0, 499, 4999, 5000},
      severity |-> Severities,
      majorOutdatedCount |-> {0, 1, 5, 6},
      minorOutdatedCount |-> {0, 10, 11} ]

\* the repository of the test "should correctly analyze repository with
\* minimal data": nothing present, no contributors, an old last commit
MinimalRepo ==
    [ numberOfContributors |-> 0, averageContributorAgeInDays |-> Null,
      ageInDays |-> 365, daysSinceLastCommit |-> 91, repoLicense |-> "null",
      hasDependencyFile |-> FALSE, hasTestDirectory |-> FALSE, hasCiSetup |-> FALSE,
      hasReadme |-> FALSE, hasDocDirectory |-> FALSE,
      releaseInfo |-> [hasReleases |-> FALSE, daysSinceLastRelease |-> Null,
                       usesSemanticVersioning |-> FALSE],
      starCount |-> 9, responseTimeMetrics |-> Null, hasCodeQualityTools |-> FALSE,
      hasContributingGuidelines |-> FALSE, longLivingPulls |-> 0, longLivingIssues |-> 0,
      hasSecurityPolicy |-> FALSE, size |-> 499,
      severity |-> [alertsEnabled |-> FALSE, high |-> Null, medium |-> Null, low |-> Null],
      majorOutdatedCount |-> 0, minorOutdatedCount |-> 0 ]

\* a repository with everything in place
HealthyRepo ==
    [ numberOfContributors |-> 5, averageContributorAgeInDays |-> 365,
      ageInDays |-> 365, daysSinceLastCommit |-> 30, repoLicense |-> "MIT License",
      hasDependencyFile |-> TRUE, hasTestDirectory |-> TRUE, hasCiSetup |-> TRUE,
      hasReadme |-> TRUE, hasDocDirectory |-> TRUE,
      releaseInfo |-> [hasReleases |-> TRUE, daysSinceLastRelease |-> 365,
                       usesSemanticVersioning |-> TRUE],
      starCount |-> 10, responseTimeMetrics |-> 72, hasCodeQualityTools |-> TRUE,
      hasContributingGuidelines |-> TRUE, longLivingPulls |-> 0, longLivingIssues |-> 0,
      hasSecurityPolicy |-> TRUE, size |-> 499,
      severity |-> [alertsEnabled |-> TRUE, high |-> 0, medium |-> 0, low |-> 0],
      majorOutdatedCount |-> 0, minorOutdatedCount |-> 0 ]

\* a maintained library with gaps: no tests, no security policy, stale
\* release, slow answers, old issues and pull requests
PatchyRepo ==
    [ numberOfContributors |-> 2, averageContributorAgeInDays |-> 365,
      ageInDays |-> 365, daysSinceLastCommit |-> 31, repoLicense |-> "GNU GPLv3",
      hasDependencyFile |-> TRUE, hasTestDirectory |-> FALSE, hasCiSetup |-> TRUE,
      hasReadme |-> TRUE, hasDocDirectory |-> FALSE,
      releaseInfo |-> [hasReleases |-> TRUE, daysSinceLastRelease |-> 366,
                       usesSemanticVersioning |-> FALSE],
      starCount |-> 10, responseTimeMetrics |-> 73, hasCodeQualityTools |-> TRUE,
      hasContributingGuidelines |-> TRUE, longLivingPulls |-> 1, longLivingIssues |-> 1,
      hasSecurityPolicy |-> FALSE, size |-> 4999,
      severity |-> [alertsEnabled |-> FALSE, high |-> Null, medium |-> Null, low |-> Null],
      majorOutdatedCount |-> 1, minorOutdatedCount |-> 0 ]

\* a new project of one recent account, tested but without releases or CI
YoungRepo ==
    [ numberOfContributors |-> 1, averageContributorAgeInDays |-> 179,
      ageInDays |-> 364, daysSinceLastCommit |-> 30, repoLicense |-> "MIT License",
      hasDependencyFile |-> TRUE, hasTestDirectory |-> TRUE, hasCiSetup |-> FALSE,
      hasReadme |-> TRUE, hasDocDirectory |-> FALSE,
      releaseInfo |-> [hasReleases |-> FALSE, daysSinceLastRelease |-> Null,
                       usesSemanticVersioning |-> FALSE],
      starCount |-> 9, responseTimeMetrics |-> Null, hasCodeQualityTools |-> FALSE,
      hasContributingGuidelines |-> TRUE, longLivingPulls |-> 0, longLivingIssues |-> 0,
      hasSecurityPolicy |-> TRUE, size |-> 499,
      severity |-> [alertsEnabled |-> FALSE, high |-> Null, medium |-> Null, low |-> Null],
      majorOutdatedCount |-> 0, minorOutdatedCount |-> 0 ]

\* one author's project without license, tests, CI, README or docs and
\* without a star, everything else in place
SoloRepo ==
    [ numberOfContributors |-> 1, averageContributorAgeInDays |-> 365,
      ageInDays |-> 365, daysSinceLastCommit |-> 30, repoLicense |-> "null",
      hasDependencyFile |-> TRUE, hasTestDirectory |-> FALSE, hasCiSetup |-> FALSE,
      hasReadme |-> FALSE, hasDocDirectory |-> FALSE,
      releaseInfo |-> [hasReleases |-> TRUE, daysSinceLastRelease |-> 365,
                       usesSemanticVersioning |-> TRUE],
      starCount |-> 0, responseTimeMetrics |-> Null, hasCodeQualityTools |-> TRUE,
      hasContributingGuidelines |-> TRUE, longLivingPulls |-> 0, longLivingIssues |-> 0,
      hasSecurityPolicy |-> TRUE, size |-> 499,
      severity |-> [alertsEnabled |-> TRUE, high |-> 0, medium |-> 0, low |-> 0],
      majorOutdatedCount |-> 0, minorOutdatedCount |-> 0 ]

\* a licensed, documented, tested and released project of twelve
\* contributors that leaves its issues and pull requests lying
CrowdedRepo ==
    [ numberOfContributors |-> 12, averageContributorAgeInDays |-> 365,
      ageInDays |-> 365, daysSinceLastCommit |-> 30, repoLicense |-> "MIT License",
      hasDependencyFile |-> TRUE, hasTestDirectory |-> TRUE, hasCiSetup |-> TRUE,
      hasReadme |-> TRUE, hasDocDirectory |-> TRUE,
      releaseInfo |-> [hasReleases |-> TRUE, daysSinceLastRelease |-> 365,
                       usesSemanticVersioning |-> TRUE],
      starCount |-> 9, responseTimeMetrics |-> 169, hasCodeQualityTools |-> FALSE,
      hasContributingGuidelines |-> FALSE, longLivingPulls |-> 6, longLivingIssues |-> 11,
      hasSecurityPolicy |-> FALSE, size |-> 5000,
      severity |-> [alertsEnabled |-> TRUE, high |-> 0, medium |-> 0, low |-> 0],
      majorOutdatedCount |-> 0, minorOutdatedCount |-> 0 ]

\* the repositories whose whole run is followed
RunProfiles == {MinimalRepo, HealthyRepo, PatchyRepo, YoungRepo}

Profiles == RunProfiles \cup {SoloRepo, CrowdedRepo}

CollectedFields == DOMAIN CollectedDomain

\* how many of a profile's fields an input of the scoring may change
MaxDeviations == 1

RECURSIVE Deviations(_, _)
Deviations(c, n) ==
    IF n = 0 THEN {c}
    ELSE LET prev == Deviations(c, n - 1)
         IN  prev \cup UNION { UNION { {[d EXCEPT ![k] = v] : v \in CollectedDomain[k]}
                                       : k \in CollectedFields }
                               : d \in prev }

\* combinations the collecting code can produce: no contributor age without
\* a contributor, no outdated dependency without a manifest file, and at
\* most 20 parsed dependencies behind
Collectable(c) ==
    /\ c.numberOfContributors = 0 => c.averageContributorAgeInDays = Null
    /\ c.majorOutdatedCount + c.minorOutdatedCount > 0 => c.hasDependencyFile
    /\ c.majorOutdatedCount + c.minorOutdatedCount <= 20

\* the values the risk-score section reads, from what was collected
AsFacts(c) ==
    [ numberOfContributors |-> c.numberOfContributors,
      averageContributorAgeInDays |-> c.averageContributorAgeInDays,
      ageInDays |-> c.ageInDays,
      daysSinceLastCommit |-> c.daysSinceLastCommit,
      license |-> LicenseOf(c.repoLicense),
      licenseRisk |-> LicenseRiskOf(c.repoLicense),
      hasDependencyFile |-> c.hasDependencyFile,
      hasTestDirectory |-> c.hasTestDirectory,
      hasCiSetup |-> c.hasCiSetup,
      hasReadme |-> c.hasReadme,
      hasDocDirectory |-> c.hasDocDirectory,
      releaseInfo |-> c.releaseInfo,
      starCount |-> c.starCount,
      responseTimeMetrics |-> c.responseTimeMetrics,
      hasCodeQualityTools |-> c.hasCodeQualityTools,
      hasContributingGuidelines |-> c.hasContributingGuidelines,
      longLivingPulls |-> c.longLivingPulls,
      longLivingIssues |-> c.longLivingIssues,
      hasSecurityPolicy |-> c.hasSecurityPolicy,
      codeComplexity |-> CodeComplexityOf(c.size),
      dependencyAnalysis |->
          [ hasDependencies |-> c.hasDependencyFile,
            alertsEnabled |-> c.severity.alertsEnabled,
            highSeverityCount |-> c.severity.high,
            mediumSeverityCount |-> c.severity.medium,
            lowSeverityCount |-> c.severity.low,
            majorOutdatedCount |-> c.majorOutdatedCount,
            minorOutdatedCount |-> c.minorOutdatedCount ] ]

ScoreInputs ==
    UNION { {c \in Deviations(p, MaxDeviations) : Collectable(c)} : p \in Profiles }

(***************************************************************************)
(* The scoring steps.                                                      *)
(***************************************************************************)
\* let riskScore = 0; const riskFactors = [];
BeginScore ==
    /\ pc = "score" /\ step = 0
    /\ riskScore' = 0 /\ riskFactors' = <<>> /\ step' = 1
    /\ UNCHANGED <<pc, facts, riskRating, runVars>>

\* ScoreStatement with the push missing from the CI/CD statement
ScoreStatementWithoutPush ==
    /\ pc = "score" /\ step \in 1..NumStatements
    /\ LET s == Statement(step, facts)
       IN  IF s.fires
             THEN /\ riskScore' = riskScore + s.weight
                  /\ riskFactors' = IF step = 8 THEN riskFactors
                                    ELSE Append(riskFactors, [msg |-> s.msg, n |-> s.n])
             ELSE UNCHANGED <<riskScore, riskFactors>>
    /\ step' = step + 1
    /\ UNCHANGED <<pc, facts, riskRating, runVars>>

\* ScoreStatement with a vulnerability statement adding its weight once
\* for every record counted
ScoreStatementPerRecord ==
    /\ pc = "score" /\ step \in 1..NumStatements
    /\ LET s == Statement(step, facts)
       IN  IF s.fires
             THEN /\ riskScore' = riskScore
                        + (IF step \in 20..22 THEN s.weight * s.n ELSE s.weight)
                  /\ riskFactors' = Append(riskFactors, [msg |-> s.msg, n |-> s.n])
             ELSE UNCHANGED <<riskScore, riskFactors>>
    /\ step' = step + 1
    /\ UNCHANGED <<pc, facts, riskRating, runVars>>

\* one if / else-if statement of the section
ScoreStatement ==
    /\ pc = "score" /\ step \in 1..NumStatements
    /\ LET s == Statement(step, facts)
       IN  IF s.fires
             THEN /\ riskScore' = riskScore + s.weight
                  /\ riskFactors' = Append(riskFactors, [msg |-> s.msg, n |-> s.n])
             ELSE UNCHANGED <<riskScore, riskFactors>>
    /\ step' = step + 1
    /\ UNCHANGED <<pc, facts, riskRating, runVars>>

\* the rating, after the last statement
Rate ==
    /\ pc = "score" /\ step = NumStatements + 1
    /\ riskRating' = RatingOf(riskScore)
    /\ pc' = "rated"
    /\ UNCHANGED <<facts, step, riskScore, riskFactors, runVars>>

InitScore ==
    /\ pc = "score" /\ step = 0
    /\ facts \in {AsFacts(c) : c \in ScoreInputs}
    /\ riskScore = 0 /\ riskFactors = <<>> /\ riskRating = "unset"
    /\ repoUrl = <<>> /\ githubToken = FALSE /\ world = <<>> /\ faults = 0
    /\ requests = <<>> /\ local = <<>> /\ dependencyAnalysis = <<>>
    /\ result = [status |-> "pending"]

NextScore == BeginScore \/ ScoreStatement \/ Rate

SpecScore == InitScore /\ [][NextScore]_vars

(***************************************************************************)
(* One run of analyzeGitHubRepository (analyzer.js 7-1180).                *)
(*                                                                         *)
(* A URL is a sequence of pieces, "/" being a piece of its own, so that    *)
(* [^/]+ is a longest run of pieces other than "/".                        *)
(***************************************************************************)
RECURSIVE RunFrom(_, _)
RunFrom(url, i) ==
    IF i > Len(url) \/ url[i] = "/" THEN <<>>
    ELSE <<url[i]>> \o RunFrom(url, i + 1)

\* /github\.com\/([^/]+)\/([^/]+)/ matched with "github.com" at piece i
MatchAt(url, i) ==
    LET g1 == RunFrom(url, i + 2)
        j == i + 2 + Len(g1)
    IN  /\ i + 1 <= Len(url)
        /\ url[i] = "github.com" /\ url[i + 1] = "/"
        /\ g1 # <<>>
        /\ j <= Len(url) /\ url[j] = "/"
        /\ RunFrom(url, j + 1) # <<>>

\* repoUrl.match(...): the leftmost match, or no match
Match(url) ==
    LET starts == {i \in 1..Len(url) : MatchAt(url, i)}
    IN  IF starts = {} THEN [matched |-> FALSE, owner |-> <<>>, repo |-> <<>>]
        ELSE LET i == CHOOSE k \in starts : \A m \in starts : k <= m
                 g1 == RunFrom(url, i + 2)
             IN  [matched |-> TRUE, owner |-> g1,
                  repo |-> RunFrom(url, i + 3 + Len(g1))]

\* parts[2].replace(/\.git$/, '')
StripGit(name) ==
    IF name # <<>> /\ name[Len(name)] = ".git" THEN SubSeq(name, 1, Len(name) - 1)
    ELSE name

PlainUrl == <<"https:", "/", "/", "github.com", "/", "owner", "/", "repo">>

RepoUrls ==
    { PlainUrl,
      <<"https:", "/", "/", "github.com", "/", "owner", "/", "repo", ".git">>,
      <<"https:", "/", "/", "github.com", "/", "owner">>,
      <<"https:", "/", "/", "gitlab.com", "/", "owner", "/", "repo">>,
      <<"not-a-github-url">> }

(***************************************************************************)
(* Requests.  fetchWithAuth sends the headers object, which carries the    *)
(* Authorization header when GH_TOKEN is set (analyzer.js 20-35).          *)
(***************************************************************************)
GitHubRequest(path, item) ==
    [host |-> "api.github.com", path |-> path, item |-> item, auth |-> githubToken]

\* PlainRequest sent with the headers of fetchWithAuth
PlainRequestWithHeaders(host, path, item) ==
    [host |-> host, path |-> path, item |-> item, auth |-> githubToken]

PlainRequest(host, path, item) ==
    [host |-> host, path |-> path, item |-> item, auth |-> FALSE]

\* how many requests of one run may fail on the way
MaxFaults == 1

\* what can come back instead of the answer the remote side holds: an error
\* status with a JSON error object as its body, or a rejected fetch
FaultKinds(normal) ==
    IF normal \in {"ok", "noContent"} THEN {"error", "throw"} ELSE {"throw"}

RECURSIVE ResponsesWithin(_, _)
ResponsesWithin(normals, budget) ==
    IF normals = <<>> THEN {<<>>}
    ELSE {<<Head(normals)>> \o r : r \in ResponsesWithin(Tail(normals), budget)}
         \cup (IF budget > 0
                 THEN UNION { {<<k>> \o r : r \in ResponsesWithin(Tail(normals), budget - 1)}
                              : k \in FaultKinds(Head(normals)) }
                 ELSE {})

\* the responses a stage may see for requests whose true answers are normals
Responses(normals) == ResponsesWithin(normals, MaxFaults - faults)

NumFaults(r, normals) == Cardinality({i \in 1..Len(r) : r[i] # normals[i]})

Threw(r) == \E i \in 1..Len(r) : r[i] = "throw"

FirstThrow(r) == CHOOSE i \in 1..Len(r) : r[i] = "throw" /\ \A j \in 1..(i - 1) : r[j] # "throw"

Min(a, b) == IF a < b THEN a ELSE b

(***************************************************************************)
(* Returned objects.  markdownSummary is a sequence of lines.  The two     *)
(* early returns and the outer catch return no riskRating.                 *)
(***************************************************************************)
ErrorResult(line) == [markdownSummary |-> <<line>>, riskScore |-> "N/A"]

\* return from the function with the given object
Return(r) ==
    /\ result' = r
    /\ pc' = "done"

\* } catch (error) { return { markdownSummary: `Error during analysis: ...
CatchOuter == Return(ErrorResult("Error during analysis"))

(***************************************************************************)
(* What the remote services hold.                                          *)
(***************************************************************************)
\* a declared dependency: its name and its version as written, a range
\* prefix such as ^ or == followed by the digits
Dep(name, prefix, digits) == [name |-> name, prefix |-> prefix, digits |-> digits]

\* a file: deps are the entries of dependencies, or the lines of
\* requirements.txt (a line without an operator has the prefix ""); devDeps
\* are the entries of devDependencies
NoFile == [present |-> FALSE, malformed |-> FALSE, deps |-> <<>>, devDeps |-> <<>>]

File(deps) == [present |-> TRUE, malformed |-> FALSE, deps |-> deps, devDeps |-> <<>>]

\* package.json, requirements.txt and the other manifests of the repository
ManifestWorlds ==
    { [packageJson |-> NoFile, requirements |-> NoFile, others |-> {}],
      [packageJson |-> NoFile, requirements |-> NoFile, others |-> {"pom.xml"}],
      [packageJson |-> File(<<Dep("express", "^", <<4, 17, 1>>),
                              Dep("lodash", "~", <<3, 10, 0>>)>>),
       requirements |-> NoFile, others |-> {"package-lock.json"}],
      [packageJson |-> NoFile,
       requirements |-> File(<<Dep("requests", "==", <<2, 0, 0>>)>>),
       others |-> {}],
      [packageJson |-> [present |-> TRUE, malformed |-> TRUE, deps |-> <<>>, devDeps |-> <<>>],
       requirements |-> File(<<Dep("requests", ">=", <<2, 0, 0>>)>>),
       others |-> {"Gemfile"}] }

DepNames == {"express", "lodash", "requests"}

\* a Dependabot alert: security_vulnerability.severity and the package of
\* its advisory
Alert(severity, package) == [severity |-> severity, package |-> package]

NoAlerts == [status |-> "notFound", alerts |-> <<>>]

AlertWorlds ==
    { NoAlerts,
      [status |-> "noContent", alerts |-> <<>>],
      [status |-> "noContent", alerts |-> <<Alert("high", "lodash")>>],
      [status |-> "noContent", alerts |-> <<Alert("critical", "express"), Alert("low", "express")>>] }

\* an OSV record: the types of its severity array, database_specific.cvss
\* score in tenths (Null when absent), database_specific.severity ("" when
\* absent)
OsvVuln(id, types, cvss, dbSeverity) ==
    [id |-> id, severity |-> types, cvss |-> cvss, dbSeverity |-> dbSeverity]

OsvWorlds ==
    { [d \in DepNames |-> <<>>],
      [d \in DepNames |->
          IF d = "lodash" THEN <<OsvVuln("GHSA-1", <<"HIGH">>, Null, "")>> ELSE <<>>],
      [d \in DepNames |->
          CASE d = "express" -> <<OsvVuln("GHSA-2", <<>>, 98, ""),
                                  OsvVuln("GHSA-3", <<>>, Null, "low")>>
            [] d = "lodash" -> <<OsvVuln("GHSA-4", <<"CVSS_V3">>, Null, "")>>
            [] OTHER -> <<OsvVuln("PYSEC-5", <<>>, 75, ""),
                          OsvVuln("PYSEC-6", <<"HIGH">>, Null, "")>>] }

\* the latest version each registry publishes
RegistryWorlds ==
    { [d \in DepNames |->
          CASE d = "express" -> <<5, 1, 0>>
            [] d = "lodash" -> <<3, 10, 1>>
            [] OTHER -> <<2, 32, 0>>] }

HasManifest(manifest) ==
    manifest.packageJson.present \/ manifest.requirements.present \/ manifest.others # {}

DeclaresDependencies(manifest) ==
    manifest.packageJson.deps # <<>> \/ manifest.requirements.deps # <<>>

\* a repository with its manifests, its alerts and what the vulnerability
\* index and the registries hold for its dependencies
Worlds ==
    { w \in [repo : RunProfiles, manifest : ManifestWorlds, alerts : AlertWorlds,
              osv : OsvWorlds, registry : RegistryWorlds] :
        /\ w.repo.hasDependencyFile = HasManifest(w.manifest)
        /\ DeclaresDependencies(w.manifest) \/ \A d \in DepNames : w.osv[d] = <<>> }

\* the repository nobody has set anything up for
BareWorld ==
    CHOOSE w \in Worlds : w.repo = MinimalRepo /\ w.alerts = NoAlerts

\* the issue lists of a repository whose open issues are its long-living
\* ones and whose closed issues give its response time: an answered issue,
\* a pull request and an issue without comments
IssuesOf(repo) ==
    IF repo.responseTimeMetrics = Null
      THEN [open |-> repo.longLivingIssues, closed |-> <<>>]
      ELSE [open |-> repo.longLivingIssues + 1,
            closed |-> << [pull_request |-> FALSE, comments |-> 1,
                           responseTimeHours |-> repo.responseTimeMetrics],
                          [pull_request |-> TRUE, comments |-> 1, responseTimeHours |-> 1],
                          [pull_request |-> FALSE, comments |-> 0, responseTimeHours |-> 0] >>]

\* the closed issues the API lists: those a world names, else those of its
\* repository
ClosedIssuesOf(w) ==
    IF "closedIssues" \in DOMAIN w THEN w.closedIssues ELSE IssuesOf(w.repo).closed

(***************************************************************************)
(* The run, stage by stage.  pc names the statement the run is about to    *)
(* execute; local holds the constants and lets declared so far.            *)
(***************************************************************************)
Init ==
    /\ pc = "start"
    /\ \/ /\ repoUrl = PlainUrl
          /\ githubToken \in BOOLEAN
          /\ world \in Worlds
          /\ githubToken \/ world.alerts = NoAlerts
       \/ /\ repoUrl \in RepoUrls \ {PlainUrl}
          /\ githubToken = FALSE
          /\ world = BareWorld
    /\ faults = 0 /\ requests = <<>> /\ local = <<>> /\ dependencyAnalysis = <<>>
    /\ result = [status |-> "pending"]
    /\ facts = <<>> /\ step = 0
    /\ riskScore = 0 /\ riskFactors = <<>> /\ riskRating = "unset"

scoreVars == <<facts, step, riskScore, riskFactors, riskRating>>

\* the statement at next follows, with the new constants declared
Continue(next, declared) ==
    /\ pc' = next
    /\ local' = declared @@ local
    /\ UNCHANGED result

\* lines 9-18
ParseUrl ==
    /\ pc = "start"
    /\ LET parts == Match(repoUrl)
       IN  IF ~parts.matched
             THEN /\ Return(ErrorResult("Error: Invalid GitHub repository URL."))
                  /\ UNCHANGED local
             ELSE Continue("repoInfo", [owner |-> parts.owner, repo |-> StripGit(parts.repo)])
    /\ UNCHANGED <<repoUrl, githubToken, world, faults, requests, dependencyAnalysis, scoreVars>>

\* const repoInfo = await repoInfoResponse.json() and what is read from it
RepoInfo ==
    [ ageInDays |-> world.repo.ageInDays,
      starCount |-> world.repo.starCount,
      license |-> LicenseOf(world.repo.repoLicense),
      licenseRisk |-> LicenseRiskOf(world.repo.repoLicense),
      size |-> world.repo.size ]

\* FetchRepoInfo without the return of lines 39-44
FetchRepoInfoWithoutReturn ==
    /\ pc = "repoInfo"
    /\ requests' = Append(requests, GitHubRequest("", ""))
    /\ \E response \in {"ok", "notFound", "error", "throw"} :
          IF response = "throw"
            THEN /\ CatchOuter
                 /\ local' = [repoInfoResponse |-> response] @@ local
            ELSE Continue("contributors", [repoInfoResponse |-> response] @@ RepoInfo)
    /\ UNCHANGED <<repoUrl, githubToken, world, faults, dependencyAnalysis, scoreVars>>

\* lines 38-75: the primary fetch, which any repository name may fail;
\* repoInfoResponse keeps how the await ended
FetchRepoInfo ==
    /\ pc = "repoInfo"
    /\ requests' = Append(requests, GitHubRequest("", ""))
    /\ \E response \in {"ok", "notFound", "error", "throw"} :
          CASE response = "ok" ->
                  Continue("contributors", [repoInfoResponse |-> response] @@ RepoInfo)
            [] response = "throw" ->
                  /\ CatchOuter
                  /\ local' = [repoInfoResponse |-> response] @@ local
            [] OTHER ->
                  /\ Return(ErrorResult("Error fetching repository information"))
                  /\ local' = [repoInfoResponse |-> response] @@ local
    /\ UNCHANGED <<repoUrl, githubToken, world, faults, dependencyAnalysis, scoreVars>>

\* lines 78-80 and 87: contributors.slice exists only on an array
FetchContributors ==
    /\ pc = "contributors"
    /\ requests' = Append(requests, GitHubRequest("/contributors", ""))
    /\ \E r \in Responses(<<"ok">>) :
          /\ faults' = faults + NumFaults(r, <<"ok">>)
          /\ IF r[1] = "ok"
               THEN Continue("contributorDetails",
                             [numberOfContributors |-> world.repo.numberOfContributors])
               ELSE CatchOuter /\ UNCHANGED local
    /\ UNCHANGED <<repoUrl, githubToken, world, dependencyAnalysis, scoreVars>>

\* FetchContributorDetails without the slice(0, 10) of line 87
FetchContributorDetailsOfAll ==
    /\ pc = "contributorDetails"
    /\ LET n == local.numberOfContributors
           normals == [i \in 1..n |-> "ok"]
       IN  /\ requests' = requests \o [i \in 1..n |-> GitHubRequest("/users", ToString(i))]
           /\ \E r \in Responses(normals) :
                 LET processedContributors == Cardinality({i \in 1..n : r[i] = "ok"})
                     totalContributorAge ==
                         processedContributors * world.repo.averageContributorAgeInDays
                 IN  /\ faults' = faults + NumFaults(r, normals)
                     /\ Continue("dependencyFiles",
                                 [averageContributorAgeInDays |->
                                     IF processedContributors > 0
                                       THEN totalContributorAge \div processedContributors
                                       ELSE Null])
    /\ UNCHANGED <<repoUrl, githubToken, world, dependencyAnalysis, scoreVars>>

\* lines 83-108: one user fetch after another, each in its own try
FetchContributorDetails ==
    /\ pc = "contributorDetails"
    /\ LET n == Min(local.numberOfContributors, 10)
           normals == [i \in 1..n |-> "ok"]
       IN  /\ requests' = requests \o [i \in 1..n |-> GitHubRequest("/users", ToString(i))]
           /\ \E r \in Responses(normals) :
                 LET processedContributors == Cardinality({i \in 1..n : r[i] = "ok"})
                     totalContributorAge ==
                         processedContributors * world.repo.averageContributorAgeInDays
                 IN  /\ faults' = faults + NumFaults(r, normals)
                     /\ Continue("dependencyFiles",
                                 [averageContributorAgeInDays |->
                                     IF processedContributors > 0
                                       THEN totalContributorAge \div processedContributors
                                       ELSE Null])
    /\ UNCHANGED <<repoUrl, githubToken, world, dependencyAnalysis, scoreVars>>

ManifestPaths ==
    << "package.json", "package-lock.json", "requirements.txt", "Gemfile",
       "build.gradle", "pom.xml" >>

\* what the contents endpoint answers for a manifest path
ManifestStatus(path) ==
    LET present == CASE path = "package.json" -> world.manifest.packageJson.present
                     [] path = "requirements.txt" -> world.manifest.requirements.present
                     [] OTHER -> path \in world.manifest.others
    IN  IF present THEN "ok" ELSE "notFound"

\* lines 111-141: six fetches one after another, none in a try
FetchDependencyFiles ==
    /\ pc = "dependencyFiles"
    /\ LET normals == [i \in 1..Len(ManifestPaths) |-> ManifestStatus(ManifestPaths[i])]
           issued(k) == [i \in 1..k |-> GitHubRequest("/contents", ManifestPaths[i])]
       IN  \E r \in Responses(normals) :
              /\ faults' = faults + NumFaults(r, normals)
              /\ IF Threw(r)
                   THEN /\ requests' = requests \o issued(FirstThrow(r))
                        /\ CatchOuter
                        /\ UNCHANGED <<local, dependencyAnalysis>>
                   ELSE /\ requests' = requests \o issued(Len(ManifestPaths))
                        /\ Continue("alerts",
                                    [ dependencyFileResponses |-> r,
                                      packageJsonResponse |-> r[1],
                                      requirementsResponse |-> r[3],
                                      mavenResponse |-> r[6],
                                      hasDependencyFile |-> \E i \in 1..Len(r) : r[i] = "ok" ])
                        /\ dependencyAnalysis' =
                              [ hasDependencies |-> \E i \in 1..Len(r) : r[i] = "ok",
                                dependenciesCount |-> 0,
                                parsedDependencies |-> <<>>,
                                outdatedDependencies |-> <<>>,
                                majorOutdatedCount |-> 0,
                                minorOutdatedCount |-> 0,
                                vulnerablePackages |-> <<>>,
                                alertsEnabled |-> FALSE,
                                highSeverityCount |-> Null,
                                mediumSeverityCount |-> Null,
                                lowSeverityCount |-> Null,
                                vulnerabilitySource |-> "null" ]
    /\ UNCHANGED <<repoUrl, githubToken, world, scoreVars>>

\* how many alerts carry the severity; the keys counted are high, medium, low
SeverityCount(alerts, severity) ==
    Cardinality({i \in 1..Len(alerts) : alerts[i].severity = severity})

\* lines 144-209: asked only with a token, and inside one try
CheckAlerts ==
    /\ pc = "alerts"
    /\ IF ~githubToken
         THEN /\ Continue("parsePackageJson",
                          [alertsResponse |-> "none", dependabotAlertsResponse |-> "none"])
              /\ UNCHANGED <<faults, requests, dependencyAnalysis>>
         ELSE LET normals == <<world.alerts.status, "ok">>
                  check == GitHubRequest("/vulnerability-alerts", "")
                  list == GitHubRequest("/dependabot/alerts?state=open", "")
              IN  \E r \in Responses(normals) :
                     LET enabled == r[1] = "noContent"
                         alerts == world.alerts.alerts
                     IN  /\ enabled \/ r[2] = "ok"
                         /\ faults' = faults + NumFaults(r, normals)
                         /\ requests' = requests \o (IF enabled THEN <<check, list>> ELSE <<check>>)
                         /\ Continue("parsePackageJson",
                                     [ alertsResponse |-> r[1],
                                       dependabotAlertsResponse |-> IF enabled THEN r[2] ELSE "none" ])
                         /\ dependencyAnalysis' =
                               IF enabled /\ r[2] = "ok"
                                 THEN [dependencyAnalysis EXCEPT
                                         !.alertsEnabled = TRUE,
                                         !.highSeverityCount = SeverityCount(alerts, "high"),
                                         !.mediumSeverityCount = SeverityCount(alerts, "medium"),
                                         !.lowSeverityCount = SeverityCount(alerts, "low"),
                                         !.vulnerablePackages =
                                             [i \in 1..Len(alerts) |->
                                                 [name |-> alerts[i].package,
                                                  severity |-> alerts[i].severity]]]
                                 ELSE [dependencyAnalysis EXCEPT !.alertsEnabled = enabled]
    /\ UNCHANGED <<repoUrl, githubToken, world, scoreVars>>

\* version.replace(/[^0-9.]/g, ''): the range prefix goes, the digits stay
CleanVersion(prefix, digits) == digits

\* FirstTwenty without the slice
FirstTwentyUncapped(s) == s

FirstTwenty(s) == SubSeq(s, 1, Min(Len(s), 20))

\* { ...(dependencies || {}), ...(devDependencies || {}) }: a name keeps the
\* place of its first entry and takes the version of its last
AllDeps(file) ==
    LET named(entries, name) == {i \in 1..Len(entries) : entries[i].name = name}
        last(entries, name) == entries[CHOOSE i \in named(entries, name) :
                                          \A j \in named(entries, name) : j <= i]
    IN  [i \in 1..Len(file.deps) |->
            IF named(file.devDeps, file.deps[i].name) # {}
              THEN last(file.devDeps, file.deps[i].name)
              ELSE file.deps[i]]
        \o SelectSeq(file.devDeps, LAMBDA entry : named(file.deps, entry.name) = {})

\* the lines /^([a-zA-Z0-9_.-]+)[=~!<>]{1,2}([0-9a-zA-Z.-]+)/ matches: a
\* name, an operator and a version
Requirements(file) == SelectSeq(file.deps, LAMBDA line : line.prefix # "")

\* lines 212-239: JSON.parse of a malformed file throws into the catch
ParsePackageJson ==
    /\ pc = "parsePackageJson"
    /\ LET file == world.manifest.packageJson
       IN  dependencyAnalysis' =
              IF local.packageJsonResponse = "ok" /\ ~file.malformed
                THEN [dependencyAnalysis EXCEPT
                        !.dependenciesCount = Len(AllDeps(file)),
                        !.parsedDependencies =
                            FirstTwenty([i \in 1..Len(AllDeps(file)) |->
                                [name |-> AllDeps(file)[i].name,
                                 version |-> CleanVersion(AllDeps(file)[i].prefix,
                                                          AllDeps(file)[i].digits)]])]
                ELSE dependencyAnalysis
    /\ pc' = "parseRequirements"
    /\ UNCHANGED <<repoUrl, githubToken, world, faults, requests, local, result, scoreVars>>

\* lines 242-264 without the test of parsedDependencies.length
ParseRequirementsRegardless ==
    /\ pc = "parseRequirements"
    /\ LET file == world.manifest.requirements
       IN  dependencyAnalysis' =
              IF /\ local.requirementsResponse = "ok"
                 /\ ~file.malformed
                THEN [dependencyAnalysis EXCEPT
                        !.dependenciesCount = Len(Requirements(file)),
                        !.parsedDependencies =
                            FirstTwenty([i \in 1..Len(Requirements(file)) |->
                                [name |-> Requirements(file)[i].name,
                                 version |-> Requirements(file)[i].digits]])]
                ELSE dependencyAnalysis
    /\ pc' = "osv"
    /\ UNCHANGED <<repoUrl, githubToken, world, faults, requests, local, result, scoreVars>>

\* lines 242-264: /^([a-zA-Z0-9_.-]+)[=~!<>]{1,2}([0-9a-zA-Z.-]+)/
ParseRequirements ==
    /\ pc = "parseRequirements"
    /\ LET file == world.manifest.requirements
       IN  dependencyAnalysis' =
              IF /\ local.requirementsResponse = "ok"
                 /\ Len(dependencyAnalysis.parsedDependencies) = 0
                 /\ ~file.malformed
                THEN [dependencyAnalysis EXCEPT
                        !.dependenciesCount = Len(Requirements(file)),
                        !.parsedDependencies =
                            FirstTwenty([i \in 1..Len(Requirements(file)) |->
                                [name |-> Requirements(file)[i].name,
                                 version |-> Requirements(file)[i].digits]])]
                ELSE dependencyAnalysis
    /\ pc' = "osv"
    /\ UNCHANGED <<repoUrl, githubToken, world, faults, requests, local, result, scoreVars>>

\* s.toUpperCase() on the labels that occur
ToUpperCase(s) ==
    CASE s = "critical" -> "CRITICAL"
      [] s = "high" -> "HIGH"
      [] s = "medium" -> "MEDIUM"
      [] s = "low" -> "LOW"
      [] s = "High" -> "HIGH"
      [] s = "moderate" -> "MODERATE"
      [] OTHER -> s

SeverityLabels == <<"CRITICAL", "HIGH", "MEDIUM", "LOW">>

\* determineSeverity with database_specific.severity read before the CVSS score
determineSeverityLabelFirst(vulnerability) ==
    LET severities == {ToUpperCase(vulnerability.severity[i]) :
                          i \in 1..Len(vulnerability.severity)}
        named == {i \in 1..Len(SeverityLabels) : SeverityLabels[i] \in severities}
        sev == ToUpperCase(vulnerability.dbSeverity)
    IN  IF named # {}
          THEN SeverityLabels[CHOOSE i \in named : \A j \in named : i <= j]
        ELSE IF vulnerability.dbSeverity # "" /\ sev \in {"CRITICAL", "HIGH", "MEDIUM", "LOW"}
          THEN sev
        ELSE IF vulnerability.cvss # Null
          THEN IF vulnerability.cvss >= 90 THEN "CRITICAL"
               ELSE IF vulnerability.cvss >= 70 THEN "HIGH"
               ELSE IF vulnerability.cvss >= 40 THEN "MEDIUM"
               ELSE "LOW"
        ELSE "MEDIUM"

\* lines 1183-1217; the CVSS score is in tenths
determineSeverity(vulnerability) ==
    LET severities == {ToUpperCase(vulnerability.severity[i]) :
                          i \in 1..Len(vulnerability.severity)}
        named == {i \in 1..Len(SeverityLabels) : SeverityLabels[i] \in severities}
        sev == ToUpperCase(vulnerability.dbSeverity)
    IN  IF named # {}
          THEN SeverityLabels[CHOOSE i \in named : \A j \in named : i <= j]
        ELSE IF vulnerability.cvss # Null
          THEN IF vulnerability.cvss >= 90 THEN "CRITICAL"
               ELSE IF vulnerability.cvss >= 70 THEN "HIGH"
               ELSE IF vulnerability.cvss >= 40 THEN "MEDIUM"
               ELSE "LOW"
        ELSE IF vulnerability.dbSeverity # "" /\ sev \in {"CRITICAL", "HIGH", "MEDIUM", "LOW"}
          THEN sev
        ELSE "MEDIUM"

\* the ecosystem a package name of the modelled world belongs to
EcosystemOf(name) == IF name = "requests" THEN "PyPI" ELSE "npm"

RECURSIVE Flat(_)
Flat(ss) == IF ss = <<>> THEN <<>> ELSE Head(ss) \o Flat(Tail(ss))

\* const batchSize = 10 of the OSV lookup
osvBatchSize == 10

\* const batchSize = 5 of the registry lookup
registryBatchSize == 5

\* batches[k] for batches of the given size
Batch(deps, size, k) == SubSeq(deps, (k - 1) * size + 1, Min(k * size, Len(deps)))

NumBatches(deps, size) == (Len(deps) + size - 1) \div size

\* lines 271-279
OsvEcosystem ==
    IF local.packageJsonResponse = "ok" THEN "npm"
    ELSE IF local.requirementsResponse = "ok" THEN "PyPI"
    ELSE IF local.mavenResponse = "ok" THEN "Maven"
    ELSE "null"

\* lines 267-290: the lookup runs whenever dependencies were parsed
BeginOsv ==
    /\ pc = "osv"
    /\ IF Len(dependencyAnalysis.parsedDependencies) > 0 /\ OsvEcosystem # "null"
         THEN Continue("osvBatch", [osvEcosystem |-> OsvEcosystem, osvBatch |-> 1,
                                    osvVulnerabilities |-> <<>>, osvResponses |-> <<>>])
         ELSE Continue("outdated", [osvVulnerabilities |-> <<>>])
    /\ UNCHANGED <<repoUrl, githubToken, world, faults, requests, dependencyAnalysis, scoreVars>>

OsvRequest(dep, ecosystem) ==
    [host |-> "api.osv.dev", path |-> "/v1/query", item |-> dep.name, auth |-> FALSE,
     ecosystem |-> ecosystem]

\* lines 315-322: what one answered query yields
OsvFound(dep, ecosystem) ==
    LET vulns == IF ecosystem = EcosystemOf(dep.name) THEN world.osv[dep.name] ELSE <<>>
    IN  [i \in 1..Len(vulns) |->
            [package |-> dep.name, id |-> vulns[i].id,
             severity |-> determineSeverity(vulns[i])]]

\* lines 292-337 with the queries of a batch sharing one try: a failed
\* query loses the batch
OsvBatchSharingTry ==
    /\ pc = "osvBatch"
    /\ LET batch == Batch(dependencyAnalysis.parsedDependencies, osvBatchSize, local.osvBatch)
           normals == [i \in 1..Len(batch) |-> "ok"]
       IN  /\ requests' = requests \o [i \in 1..Len(batch) |->
                                          OsvRequest(batch[i], local.osvEcosystem)]
           /\ \E r \in Responses(normals) :
                 /\ faults' = faults + NumFaults(r, normals)
                 /\ pc' = "osvPause"
                 /\ local' = [local EXCEPT
                        !.osvResponses = @ \o r,
                        !.osvVulnerabilities =
                            IF r # normals THEN @
                            ELSE @ \o Flat([i \in 1..Len(batch) |->
                                               OsvFound(batch[i], local.osvEcosystem)])]
    /\ UNCHANGED <<repoUrl, githubToken, world, dependencyAnalysis, result, scoreVars>>

\* lines 292-337: the queries of one batch, each in its own try
OsvBatch ==
    /\ pc = "osvBatch"
    /\ LET batch == Batch(dependencyAnalysis.parsedDependencies, osvBatchSize, local.osvBatch)
           normals == [i \in 1..Len(batch) |-> "ok"]
       IN  /\ requests' = requests \o [i \in 1..Len(batch) |->
                                          OsvRequest(batch[i], local.osvEcosystem)]
           /\ \E r \in Responses(normals) :
                 /\ faults' = faults + NumFaults(r, normals)
                 /\ pc' = "osvPause"
                 /\ local' = [local EXCEPT
                        !.osvResponses = @ \o r,
                        !.osvVulnerabilities =
                            @ \o Flat([i \in 1..Len(batch) |->
                                         IF r[i] = "ok"
                                           THEN OsvFound(batch[i], local.osvEcosystem)
                                           ELSE <<>>])]
    /\ UNCHANGED <<repoUrl, githubToken, world, dependencyAnalysis, result, scoreVars>>

\* line 340: the pause after a batch, then the next batch or the counts
OsvPause ==
    /\ pc = "osvPause"
    /\ IF local.osvBatch < NumBatches(dependencyAnalysis.parsedDependencies, osvBatchSize)
         THEN pc' = "osvBatch" /\ local' = [local EXCEPT !.osvBatch = @ + 1]
         ELSE pc' = "osvCount" /\ UNCHANGED local
    /\ UNCHANGED <<repoUrl, githubToken, world, faults, requests, dependencyAnalysis,
                   result, scoreVars>>

CountSeverity(vulns, severity) ==
    Cardinality({i \in 1..Len(vulns) : vulns[i].severity = severity})

\* lines 344-368: null === 0 is false
OsvCount ==
    /\ pc = "osvCount"
    /\ LET osvVulnerabilities == local.osvVulnerabilities
       IN  dependencyAnalysis' =
              IF /\ Len(osvVulnerabilities) > 0
                 /\ dependencyAnalysis.highSeverityCount = 0
                 /\ dependencyAnalysis.mediumSeverityCount = 0
                 /\ dependencyAnalysis.lowSeverityCount = 0
                THEN [dependencyAnalysis EXCEPT
                        !.highSeverityCount = CountSeverity(osvVulnerabilities, "HIGH"),
                        !.mediumSeverityCount = CountSeverity(osvVulnerabilities, "MEDIUM"),
                        !.lowSeverityCount = CountSeverity(osvVulnerabilities, "LOW"),
                        !.vulnerablePackages =
                            [i \in 1..Len(osvVulnerabilities) |->
                                [name |-> osvVulnerabilities[i].package,
                                 severity |-> osvVulnerabilities[i].severity]],
                        !.vulnerabilitySource = "OSV"]
                ELSE dependencyAnalysis
    /\ pc' = "outdated"
    /\ UNCHANGED <<repoUrl, githubToken, world, faults, requests, local, result, scoreVars>>

\* lines 381-386
RegistryEcosystem ==
    IF local.packageJsonResponse = "ok" THEN "npm"
    ELSE IF local.requirementsResponse = "ok" THEN "PyPI"
    ELSE "null"

\* lines 376-395
BeginOutdated ==
    /\ pc = "outdated"
    /\ IF Len(dependencyAnalysis.parsedDependencies) > 0 /\ RegistryEcosystem # "null"
         THEN Continue("registryBatch",
                       [registryEcosystem |-> RegistryEcosystem, registryBatch |-> 1,
                        registryResponses |-> <<>>])
         ELSE Continue("tests", <<>>)
    /\ UNCHANGED <<repoUrl, githubToken, world, faults, requests, dependencyAnalysis, scoreVars>>

\* lines 404-406 and 414-416
RegistryRequest(dep, ecosystem) ==
    IF ecosystem = "npm" THEN PlainRequest("registry.npmjs.org", "/latest", dep.name)
    ELSE PlainRequest("pypi.org", "/pypi/json", dep.name)

\* what the registry of the ecosystem answers for the package
RegistryStatus(dep, ecosystem) ==
    IF ecosystem = EcosystemOf(dep.name) THEN "ok" ELSE "notFound"

\* semver.coerce of a cleaned version, as its digits: major, minor and
\* patch are the first three numbers, a missing one is 0
Coerce(digits) == [i \in 1..3 |-> IF i <= Len(digits) THEN digits[i] ELSE 0]

\* semver.valid(semver.coerce(v)): a version without any number coerces to null
Coercible(digits) == Len(digits) > 0

\* Outdated with the minor comparison made at any major
OutdatedMinorAtAnyMajor(dep, latest) ==
    LET currentSemver == Coerce(dep.version)
        latestSemver == Coerce(latest)
        isMajorBehind == latestSemver[1] > currentSemver[1]
        isMinorBehind == latestSemver[2] > currentSemver[2]
        isPatchBehind == /\ latestSemver[1] = currentSemver[1]
                         /\ latestSemver[2] = currentSemver[2]
                         /\ latestSemver[3] > currentSemver[3]
    IN  IF /\ Coercible(dep.version) /\ Coercible(latest)
           /\ isMajorBehind \/ isMinorBehind \/ isPatchBehind
          THEN << [ name |-> dep.name,
                    currentVersion |-> dep.version, latestVersion |-> latest,
                    isMajorBehind |-> isMajorBehind,
                    isMinorBehind |-> isMinorBehind, isPatchBehind |-> isPatchBehind,
                    updateUrgency |-> IF isMajorBehind THEN "high"
                                      ELSE IF isMinorBehind THEN "medium" ELSE "low" ] >>
          ELSE <<>>

\* lines 423-471: the outdated record of one dependency, or none
Outdated(dep, latest) ==
    LET currentSemver == Coerce(dep.version)
        latestSemver == Coerce(latest)
        isMajorBehind == latestSemver[1] > currentSemver[1]
        isMinorBehind == /\ latestSemver[1] = currentSemver[1]
                         /\ latestSemver[2] > currentSemver[2]
        isPatchBehind == /\ latestSemver[1] = currentSemver[1]
                         /\ latestSemver[2] = currentSemver[2]
                         /\ latestSemver[3] > currentSemver[3]
    IN  IF /\ Coercible(dep.version) /\ Coercible(latest)
           /\ isMajorBehind \/ isMinorBehind \/ isPatchBehind
          THEN << [ name |-> dep.name,
                    currentVersion |-> dep.version, latestVersion |-> latest,
                    isMajorBehind |-> isMajorBehind,
                    isMinorBehind |-> isMinorBehind, isPatchBehind |-> isPatchBehind,
                    updateUrgency |-> IF isMajorBehind THEN "high"
                                      ELSE IF isMinorBehind THEN "medium" ELSE "low" ] >>
          ELSE <<>>

\* lines 397-484: the registry requests of one batch, each in its own try
RegistryBatch ==
    /\ pc = "registryBatch"
    /\ LET ecosystem == local.registryEcosystem
           batch == Batch(dependencyAnalysis.parsedDependencies, registryBatchSize,
                          local.registryBatch)
           normals == [i \in 1..Len(batch) |-> RegistryStatus(batch[i], ecosystem)]
       IN  /\ requests' = requests \o [i \in 1..Len(batch) |->
                                          RegistryRequest(batch[i], ecosystem)]
           /\ \E r \in Responses(normals) :
                 /\ faults' = faults + NumFaults(r, normals)
                 /\ dependencyAnalysis' =
                       [dependencyAnalysis EXCEPT !.outdatedDependencies =
                           @ \o Flat([i \in 1..Len(batch) |->
                                        IF r[i] = "ok"
                                          THEN Outdated(batch[i], world.registry[batch[i].name])
                                          ELSE <<>>])]
                 /\ local' = [local EXCEPT !.registryResponses = @ \o r]
    /\ pc' = "registryPause"
    /\ UNCHANGED <<repoUrl, githubToken, world, result, scoreVars>>

\* lines 487-497: the pause, then the next batch or the counts
RegistryPause ==
    /\ pc = "registryPause"
    /\ IF local.registryBatch < NumBatches(dependencyAnalysis.parsedDependencies,
                                           registryBatchSize)
         THEN /\ pc' = "registryBatch"
              /\ local' = [local EXCEPT !.registryBatch = @ + 1]
              /\ UNCHANGED dependencyAnalysis
         ELSE LET outdated == dependencyAnalysis.outdatedDependencies
              IN  /\ pc' = "tests"
                  /\ dependencyAnalysis' =
                        [dependencyAnalysis EXCEPT
                           !.majorOutdatedCount =
                               Cardinality({i \in 1..Len(outdated) : outdated[i].isMajorBehind}),
                           !.minorOutdatedCount =
                               Cardinality({i \in 1..Len(outdated) :
                                   ~outdated[i].isMajorBehind /\ outdated[i].isMinorBehind})]
                  /\ UNCHANGED local
    /\ UNCHANGED <<repoUrl, githubToken, world, faults, requests, result, scoreVars>>

\* lines 505-510, 515-522, 611-615, 620-631, 677-680: the candidate paths
TestPaths == <<"tests", "test", "__tests__", "spec">>

CiPaths ==
    << ".github/workflows", ".travis.yml", ".gitlab-ci.yml", "azure-pipelines.yml",
       "Jenkinsfile", ".circleci/config.yml" >>

DocsPaths == <<"docs", "documentation", "wiki">>

CodeQualityPaths ==
    << ".eslintrc", ".eslintrc.js", ".eslintrc.json", ".prettierrc", ".prettierrc.js",
       ".prettierrc.json", ".stylelintrc", ".pylintrc", "tslint.json", ".rubocop.yml" >>

SecurityPaths == <<"SECURITY.md", "SECURITY.txt">>

\* await Promise.all([fetchWithAuth(...), ...]) outside any inner try: every
\* request is issued, one rejection rejects the whole, and the flag is
\* responses.some(response => response.ok).  A repository that has the
\* thing has it at the first candidate path.  flag names the constant that
\* takes the result, responses the constant that takes the responses.
ProbeAll(stage, paths, present, responses, flag, next) ==
    /\ pc = stage
    /\ LET normals == [i \in 1..Len(paths) |-> IF present /\ i = 1 THEN "ok" ELSE "notFound"]
       IN  /\ requests' = requests \o [i \in 1..Len(paths) |-> GitHubRequest("/contents", paths[i])]
           /\ \E r \in Responses(normals) :
                 /\ faults' = faults + NumFaults(r, normals)
                 /\ IF Threw(r)
                      THEN CatchOuter /\ UNCHANGED local
                      ELSE Continue(next, (responses :> r)
                                           @@ (flag :> (\E i \in 1..Len(r) : r[i] = "ok")))
    /\ UNCHANGED <<repoUrl, githubToken, world, dependencyAnalysis, scoreVars>>

\* lines 505-512
CheckTests ==
    ProbeAll("tests", TestPaths, world.repo.hasTestDirectory,
             "testDirResponses", "hasTestDirectory", "ci")

\* lines 515-524
CheckCi ==
    ProbeAll("ci", CiPaths, world.repo.hasCiSetup, "ciConfigResponses", "hasCiSetup", "readme")

\* lines 527-609: one fetch; reading the excerpt is inside a try
CheckReadme ==
    ProbeAll("readme", <<"README.md">>, world.repo.hasReadme,
             "readmeResponse", "hasReadme", "docs")

\* lines 611-617
CheckDocs ==
    ProbeAll("docs", DocsPaths, world.repo.hasDocDirectory,
             "docsResponses", "hasDocDirectory", "quality")

\* lines 620-633
CheckCodeQuality ==
    ProbeAll("quality", CodeQualityPaths, world.repo.hasCodeQualityTools,
             "codeQualityResponses", "hasCodeQualityTools", "releases")

\* lines 636-661: the body is read only when the response is ok
FetchReleases ==
    /\ pc = "releases"
    /\ requests' = Append(requests, GitHubRequest("/releases", ""))
    /\ \E r \in Responses(<<"ok">>) :
          /\ faults' = faults + NumFaults(r, <<"ok">>)
          /\ CASE r[1] = "ok" -> Continue("commits", [releaseInfo |-> world.repo.releaseInfo])
               [] r[1] = "error" ->
                     Continue("commits",
                              [releaseInfo |-> [hasReleases |-> FALSE,
                                                daysSinceLastRelease |-> Null,
                                                usesSemanticVersioning |-> FALSE]])
               [] OTHER -> CatchOuter /\ UNCHANGED local
    /\ UNCHANGED <<repoUrl, githubToken, world, dependencyAnalysis, scoreVars>>

\* lines 664-670: the length of an error object is undefined, and
\* undefined > 0 is false
FetchCommits ==
    /\ pc = "commits"
    /\ requests' = Append(requests, GitHubRequest("/commits?per_page=100", ""))
    /\ \E r \in Responses(<<"ok">>) :
          /\ faults' = faults + NumFaults(r, <<"ok">>)
          /\ CASE r[1] = "ok" ->
                     Continue("contributing",
                              [daysSinceLastCommit |-> world.repo.daysSinceLastCommit])
               [] r[1] = "error" -> Continue("contributing", [daysSinceLastCommit |-> Null])
               [] OTHER -> CatchOuter /\ UNCHANGED local
    /\ UNCHANGED <<repoUrl, githubToken, world, dependencyAnalysis, scoreVars>>

\* lines 673-674
CheckContributing ==
    ProbeAll("contributing", <<"CONTRIBUTING.md">>, world.repo.hasContributingGuidelines,
             "contributingResponse", "hasContributingGuidelines", "security")

\* lines 677-681
CheckSecurity ==
    ProbeAll("security", SecurityPaths, world.repo.hasSecurityPolicy,
             "securityFileResponses", "hasSecurityPolicy", "pulls")

\* lines 684-690: openPulls.filter exists only on an array
FetchPulls ==
    /\ pc = "pulls"
    /\ requests' = Append(requests, GitHubRequest("/pulls?state=open", ""))
    /\ \E r \in Responses(<<"ok">>) :
          /\ faults' = faults + NumFaults(r, <<"ok">>)
          /\ IF r[1] = "ok"
               THEN Continue("issues", [longLivingPulls |-> world.repo.longLivingPulls])
               ELSE CatchOuter /\ UNCHANGED local
    /\ UNCHANGED <<repoUrl, githubToken, world, dependencyAnalysis, scoreVars>>

\* lines 693-703: openIssues.filter exists only on an array
FetchIssues ==
    /\ pc = "issues"
    /\ requests' = Append(requests, GitHubRequest("/issues?state=open", ""))
    /\ \E r \in Responses(<<"ok">>) :
          /\ faults' = faults + NumFaults(r, <<"ok">>)
          /\ IF r[1] = "ok"
               THEN Continue("closedIssues",
                             [ actualOpenIssues |-> IssuesOf(world.repo).open,
                               longLivingIssues |-> world.repo.longLivingIssues ])
               ELSE CatchOuter /\ UNCHANGED local
    /\ UNCHANGED <<repoUrl, githubToken, world, dependencyAnalysis, scoreVars>>

RECURSIVE SumHours(_)
SumHours(issues) ==
    IF issues = <<>> THEN 0 ELSE Head(issues).responseTimeHours + SumHours(Tail(issues))

\* lines 719-720: the first ten closed issues that are not pull requests
Sample(closed) ==
    SelectSeq(SubSeq(closed, 1, Min(Len(closed), 10)), LAMBDA issue : ~issue.pull_request)

\* lines 722-736: the sampled issues whose comments came back and hold one
WithComments(sample, r) ==
    LET answered == {i \in 1..Len(sample) : r[i + 1] = "ok" /\ sample[i].comments > 0}
    IN  Flat([i \in 1..Len(sample) |-> IF i \in answered THEN <<sample[i]>> ELSE <<>>])

\* lines 706-752: the closed issues, then the comments of the first ten
\* that are not pull requests, one fetch after another and none in a try
FetchClosedIssues ==
    /\ pc = "closedIssues"
    /\ IF local.actualOpenIssues > 0
         THEN \E sample \in {Sample(ClosedIssuesOf(world))} :
              LET normals == <<"ok">> \o [i \in 1..Len(sample) |-> "ok"]
                  issued(k) == <<GitHubRequest("/issues?state=closed", "")>>
                               \o [i \in 1..(k - 1) |-> GitHubRequest("/comments", ToString(i))]
              IN  \E r \in Responses(normals) :
                  \E issuesWithComments \in {WithComments(sample, r)} :
                         /\ r[1] = "ok" \/ r = <<r[1]>> \o Tail(normals)
                         /\ faults' = faults + NumFaults(r, normals)
                         /\ IF Threw(r)
                              THEN /\ requests' = requests \o issued(FirstThrow(r))
                                   /\ CatchOuter /\ UNCHANGED local
                              ELSE /\ requests' = requests
                                          \o issued(IF r[1] = "ok" THEN Len(r) ELSE 1)
                                   /\ Continue("collected",
                                        [responseTimeMetrics |->
                                            IF r[1] = "ok" /\ Len(issuesWithComments) > 0
                                              THEN SumHours(issuesWithComments)
                                                       \div Len(issuesWithComments)
                                              ELSE Null])
         ELSE /\ Continue("collected", [responseTimeMetrics |-> Null])
              /\ UNCHANGED <<faults, requests>>
    /\ UNCHANGED <<repoUrl, githubToken, world, dependencyAnalysis, scoreVars>>

\* what the risk-score section reads
CollectedFacts ==
    [ numberOfContributors |-> local.numberOfContributors,
      averageContributorAgeInDays |-> local.averageContributorAgeInDays,
      ageInDays |-> local.ageInDays,
      daysSinceLastCommit |-> local.daysSinceLastCommit,
      license |-> local.license,
      licenseRisk |-> local.licenseRisk,
      hasDependencyFile |-> local.hasDependencyFile,
      hasTestDirectory |-> local.hasTestDirectory,
      hasCiSetup |-> local.hasCiSetup,
      hasReadme |-> local.hasReadme,
      hasDocDirectory |-> local.hasDocDirectory,
      releaseInfo |-> local.releaseInfo,
      starCount |-> local.starCount,
      responseTimeMetrics |-> local.responseTimeMetrics,
      hasCodeQualityTools |-> local.hasCodeQualityTools,
      hasContributingGuidelines |-> local.hasContributingGuidelines,
      longLivingPulls |-> local.longLivingPulls,
      longLivingIssues |-> local.longLivingIssues,
      hasSecurityPolicy |-> local.hasSecurityPolicy,
      codeComplexity |-> CodeComplexityOf(local.size),
      dependencyAnalysis |->
          [ hasDependencies |-> dependencyAnalysis.hasDependencies,
            alertsEnabled |-> dependencyAnalysis.alertsEnabled,
            highSeverityCount |-> dependencyAnalysis.highSeverityCount,
            mediumSeverityCount |-> dependencyAnalysis.mediumSeverityCount,
            lowSeverityCount |-> dependencyAnalysis.lowSeverityCount,
            majorOutdatedCount |-> dependencyAnalysis.majorOutdatedCount,
            minorOutdatedCount |-> dependencyAnalysis.minorOutdatedCount ] ]

\* lines 755-764: the last statement before the risk-score section
AssessComplexity ==
    /\ pc = "collected"
    /\ facts' = CollectedFacts
    /\ pc' = "score" /\ step' = 0
    /\ UNCHANGED <<riskScore, riskFactors, riskRating, runVars>>

\* lines 973-1172: the summary as its lines, and the return
Summarize ==
    /\ pc = "rated"
    /\ Return([ markdownSummary |->
                    << "## GitHub Repository Analysis", "### Sustainability Assessment",
                       "Vulnerability Source: "
                           \o (IF dependencyAnalysis.vulnerabilitySource = "null" THEN "N/A"
                               ELSE dependencyAnalysis.vulnerabilitySource),
                       "### Risk Summary" >>
                    \o [i \in 1..Len(riskFactors) |-> riskFactors[i].msg]
                    \o <<"### Notes">>,
                riskScore |-> riskScore,
                riskRating |-> riskRating ])
    /\ UNCHANGED <<repoUrl, githubToken, world, faults, requests, local, dependencyAnalysis,
                   scoreVars>>

Next ==
    \/ ParseUrl \/ FetchRepoInfo \/ FetchContributors \/ FetchContributorDetails
    \/ FetchDependencyFiles \/ CheckAlerts \/ ParsePackageJson \/ ParseRequirements
    \/ BeginOsv \/ OsvBatch \/ OsvPause \/ OsvCount
    \/ BeginOutdated \/ RegistryBatch \/ RegistryPause
    \/ CheckTests \/ CheckCi \/ CheckReadme \/ CheckDocs \/ CheckCodeQuality
    \/ FetchReleases \/ FetchCommits \/ CheckContributing \/ CheckSecurity
    \/ FetchPulls \/ FetchIssues \/ FetchClosedIssues
    \/ AssessComplexity \/ BeginScore \/ ScoreStatement \/ Rate \/ Summarize

Spec == Init /\ [][Next]_vars


(***************************************************************************)
(* Properties of the risk-score section.                                   *)
(***************************************************************************)
RECURSIVE SumWeights(_)
SumWeights(factors) ==
    IF factors = <<>> THEN 0
    ELSE FactorWeight(Head(factors).msg) + SumWeights(Tail(factors))

Messages(factors) == [i \in 1..Len(factors) |-> factors[i].msg]

IsPrefixOf(s, t) == Len(s) <= Len(t) /\ SubSeq(t, 1, Len(s)) = s

\* C1: a completed analysis is rated High iff its score is above 15,
\* Medium iff the score is above 10 and at most 15, Low iff it is at most 10.
C1_RatingThresholds ==
    pc = "rated" =>
        /\ riskRating = "High" <=> riskScore > 15
        /\ riskRating = "Medium" <=> (riskScore > 10 /\ riskScore <= 15)
        /\ riskRating = "Low" <=> riskScore <= 10

C1_Witness == pc = "rated" /\ riskRating = "Medium" /\ riskScore = 13

\* C5: at every step the score is the sum of the weights of the factors
\* pushed so far; every change of the score comes with exactly one pushed
\* factor of that weight, every pushed factor with its weight, and the list
\* only grows at its end.
C5_ScoreIsSumOfFactorWeights ==
    /\ [](riskScore = SumWeights(riskFactors))
    /\ [][ /\ IsPrefixOf(riskFactors, riskFactors')
           /\ Len(riskFactors') <= Len(riskFactors) + 1
           /\ (riskScore' # riskScore <=> Len(riskFactors') = Len(riskFactors) + 1)
           /\ Len(riskFactors') = Len(riskFactors) + 1 =>
                 riskScore' - riskScore
                     = FactorWeight(riskFactors'[Len(riskFactors')].msg) ]_vars

C5_Witness == pc = "rated" /\ Len(riskFactors) >= 12 /\ riskScore >= 20

\* C7 as stated: a score of 15 is rated Low, 16 High, 10 Low and 11 Medium.
C7_BoundariesAsStated ==
    pc = "rated" =>
        /\ riskScore = 15 => riskRating = "Low"
        /\ riskScore = 16 => riskRating = "High"
        /\ riskScore = 10 => riskRating = "Low"
        /\ riskScore = 11 => riskRating = "Medium"

\* C7, amended: a score of 15 is rated Medium (the High band starts above
\* 15), 16 is rated High, 10 Low and 11 Medium.
C7_Boundaries ==
    pc = "rated" =>
        /\ riskScore = 15 => riskRating = "Medium"
        /\ riskScore = 16 => riskRating = "High"
        /\ riskScore = 10 => riskRating = "Low"
        /\ riskScore = 11 => riskRating = "Medium"

C7_Witness == pc = "rated" /\ riskScore = 15 /\ riskRating = "Medium"

\* the part of the score that the three vulnerability statements added
IsVulnerabilityFactor(factor) ==
    factor.msg \in {"n high severity vulnerabilities found.",
                    "n medium severity vulnerabilities found.",
                    "n low severity vulnerabilities found."}

IsOtherFactor(factor) == ~IsVulnerabilityFactor(factor)

VulnerabilityContribution == riskScore - SumWeights(SelectSeq(riskFactors, IsOtherFactor))

CountOf(x) == IF x = Null THEN 0 ELSE x

\* C8 as stated: the vulnerabilities contribute 3 per high-severity record
\* plus 2 per medium plus 1 per low, without a cap.
C8_PerRecordAsStated ==
    pc = "rated" =>
        VulnerabilityContribution
            = 3 * CountOf(facts.dependencyAnalysis.highSeverityCount)
              + 2 * CountOf(facts.dependencyAnalysis.mediumSeverityCount)
              + CountOf(facts.dependencyAnalysis.lowSeverityCount)

\* C8, amended: the vulnerabilities contribute 3 if at least one
\* high-severity record was counted, plus 2 if at least one medium, plus 1
\* if at least one low: at most 6, and a further record of a severity
\* already present does not raise the score.
C8_PerSeverity ==
    pc = "rated" =>
        VulnerabilityContribution
            = (IF JsGt(facts.dependencyAnalysis.highSeverityCount, 0) THEN 3 ELSE 0)
              + (IF JsGt(facts.dependencyAnalysis.mediumSeverityCount, 0) THEN 2 ELSE 0)
              + (IF JsGt(facts.dependencyAnalysis.lowSeverityCount, 0) THEN 1 ELSE 0)

C8_Witness ==
    /\ pc = "rated"
    /\ facts.dependencyAnalysis.highSeverityCount = 2
    /\ VulnerabilityContribution = 3

(***************************************************************************)
(* C6 compares the scoring of two sets of facts that differ in one         *)
(* triggering condition.  The conditions are the branch conditions of the  *)
(* section, a tier taken as its band; the release conditions are the ones  *)
(* the design states as independent rules: "releases but none in over 365  *)
(* days" and "releases present but not semver-tagged".                     *)
(***************************************************************************)
FiredMessages(f) ==
    {Statement(i, f).msg : i \in {j \in 1..NumStatements : Statement(j, f).fires}}

TriggeredMessages(f) ==
    FiredMessages(f)
    \cup (IF f.releaseInfo.hasReleases /\ ~f.releaseInfo.usesSemanticVersioning
            THEN {"Not using semantic versioning."} ELSE {})

\* the facts that differ from f in one collected value
NeighbourFacts(f) ==
    LET c == CHOOSE d \in ScoreInputs : AsFacts(d) = f
    IN  {AsFacts(d) : d \in {e \in Deviations(c, 1) : Collectable(e)}}

Without(msgs, msg) == SelectSeq(msgs, LAMBDA m : m # msg)

\* C6: when the facts change so that exactly one triggering condition stops
\* holding and every other condition is as before, the total drops by that
\* rule's weight and exactly that rule's factor leaves the list.
C6_RemovingOneCondition ==
    pc = "rated" =>
        \A f2 \in NeighbourFacts(facts) :
            LET before == TriggeredMessages(facts)
                after == TriggeredMessages(f2)
            IN  (after \subseteq before /\ Cardinality(before \ after) = 1) =>
                    LET msg == CHOOSE m \in before \ after : TRUE
                        rerun == RunStatements(f2, NumStatements)
                    IN  /\ riskScore - rerun.riskScore = FactorWeight(msg)
                        /\ Messages(rerun.riskFactors)
                               = Without(Messages(riskFactors), msg)

(***************************************************************************)
(* The outdated-dependency stage on its own (lines 376-502), for every     *)
(* pair of declared and latest version of one dependency beside a second   *)
(* dependency that is a patch, a minor or a major version behind.          *)
(***************************************************************************)
MaxVersionPart == 2

\* cleaned version strings of one to three numbers
Versions ==
    UNION { [1..n -> 0..MaxVersionPart] : n \in 1..3 }

InitOutdated ==
    /\ pc = "outdated"
    /\ repoUrl = PlainUrl /\ githubToken = FALSE
    /\ \E latest \in Versions, other \in {<<3, 10, 1>>, <<3, 11, 0>>, <<4, 0, 0>>} :
          world = [BareWorld EXCEPT
                      !.registry = [d \in DepNames |-> IF d = "express" THEN latest ELSE other]]
    /\ faults = 0 /\ requests = <<>>
    /\ local = [packageJsonResponse |-> "ok", requirementsResponse |-> "notFound"]
    /\ \E declared \in Versions :
          dependencyAnalysis =
              [ hasDependencies |-> TRUE,
                dependenciesCount |-> 2,
                parsedDependencies |-> << [name |-> "express", version |-> declared],
                                          [name |-> "lodash", version |-> <<3, 10, 0>>] >>,
                outdatedDependencies |-> <<>>,
                majorOutdatedCount |-> 0,
                minorOutdatedCount |-> 0,
                vulnerablePackages |-> <<>>,
                alertsEnabled |-> FALSE,
                highSeverityCount |-> Null,
                mediumSeverityCount |-> Null,
                lowSeverityCount |-> Null,
                vulnerabilitySource |-> "null" ]
    /\ result = [status |-> "pending"]
    /\ facts = <<>> /\ step = 0
    /\ riskScore = 0 /\ riskFactors = <<>> /\ riskRating = "unset"

NextOutdated == BeginOutdated \/ RegistryBatch \/ RegistryPause

SpecOutdated == InitOutdated /\ [][NextOutdated]_vars

(***************************************************************************)
(* The two manifest parsers on their own (lines 211-264), for manifests    *)
(* of up to MaxDeclared entries.                                           *)
(***************************************************************************)
MaxDeclared == 30

\* n entries pkg1 .. pkgn
Entries(n) == [i \in 1..n |-> Dep("pkg" \o ToString(i), "^", <<1, i>>)]

\* a requirements.txt of n pinned lines, with a bare name after the first
\* and a comment at the end
Lines(n) ==
    [i \in 1..n |-> Dep("pkg" \o ToString(i), "==", <<1, i>>)]
    \o <<Dep("# comment", "", <<>>)>>

WithBareName(lines) == <<Head(lines), Dep("flask", "", <<>>)>> \o Tail(lines)

\* devDependencies that repeat pkg1 and add two names
DevEntries == <<Dep("pkg1", "~", <<2>>), Dep("dev1", "^", <<3>>), Dep("dev2", "^", <<4>>)>>

ParseManifests ==
    { [packageJson |-> [File(Entries(n)) EXCEPT !.devDeps = dev],
       requirements |-> NoFile, others |-> {}] :
          n \in 0..MaxDeclared, dev \in {<<>>, DevEntries} }
    \cup { [packageJson |-> NoFile, requirements |-> File(lines), others |-> {}] :
              lines \in {Lines(n) : n \in 0..MaxDeclared}
                        \cup {WithBareName(Lines(n)) : n \in 1..MaxDeclared} }

\* lines 128-141
NewDependencyAnalysis(hasDependencyFile) ==
    [ hasDependencies |-> hasDependencyFile,
      dependenciesCount |-> 0,
      parsedDependencies |-> <<>>,
      outdatedDependencies |-> <<>>,
      majorOutdatedCount |-> 0,
      minorOutdatedCount |-> 0,
      vulnerablePackages |-> <<>>,
      alertsEnabled |-> FALSE,
      highSeverityCount |-> Null,
      mediumSeverityCount |-> Null,
      lowSeverityCount |-> Null,
      vulnerabilitySource |-> "null" ]

InitParse ==
    /\ pc = "parsePackageJson"
    /\ repoUrl = PlainUrl /\ githubToken = FALSE
    /\ \E manifest \in ParseManifests : world = [BareWorld EXCEPT !.manifest = manifest]
    /\ faults = 0 /\ requests = <<>>
    /\ local = [ packageJsonResponse |-> ManifestStatus("package.json"),
                 requirementsResponse |-> ManifestStatus("requirements.txt") ]
    /\ dependencyAnalysis = NewDependencyAnalysis(TRUE)
    /\ result = [status |-> "pending"]
    /\ facts = <<>> /\ step = 0
    /\ riskScore = 0 /\ riskFactors = <<>> /\ riskRating = "unset"

NextParse == ParsePackageJson \/ ParseRequirements

SpecParse == InitParse /\ [][NextParse]_vars

(***************************************************************************)
(* The whole run on a repository whose package.json declares more          *)
(* dependencies than one batch of either lookup holds; every one of them   *)
(* has a record in the vulnerability index and a newer major version in    *)
(* the registry.                                                           *)
(***************************************************************************)
NumLookupDeps == 11

LookupNames == {"pkg" \o ToString(i) : i \in 1..NumLookupDeps}

LookupWorld ==
    [ repo |-> HealthyRepo,
      manifest |-> [packageJson |-> File(Entries(NumLookupDeps)),
                    requirements |-> NoFile, others |-> {}],
      alerts |-> NoAlerts,
      osv |-> [d \in LookupNames |-> <<OsvVuln("GHSA-" \o d, <<"HIGH">>, Null, "")>>],
      registry |-> [d \in LookupNames |-> <<2, 0, 0>>] ]

InitLookup ==
    /\ pc = "start"
    /\ repoUrl = PlainUrl /\ githubToken \in BOOLEAN
    /\ world = LookupWorld
    /\ faults = 0 /\ requests = <<>> /\ local = <<>> /\ dependencyAnalysis = <<>>
    /\ result = [status |-> "pending"]
    /\ facts = <<>> /\ step = 0
    /\ riskScore = 0 /\ riskFactors = <<>> /\ riskRating = "unset"

SpecLookup == InitLookup /\ [][Next]_vars

(***************************************************************************)
(* The whole run on a repository that exceeds every cap: twelve            *)
(* contributors, NumCrowdedDeps declared dependencies and twelve closed    *)
(* issues, every one of them answered.  One request of the run may fail.   *)
(* The fair specification lets no await wait for ever: every request       *)
(* completes or fails.                                                     *)
(***************************************************************************)
NumCrowdedDeps == 21

CrowdedNames == {"pkg" \o ToString(i) : i \in 1..NumCrowdedDeps}

CrowdedWorld ==
    [ repo |-> CrowdedRepo,
      manifest |-> [packageJson |-> File(Entries(NumCrowdedDeps)),
                    requirements |-> NoFile, others |-> {}],
      alerts |-> NoAlerts,
      osv |-> [d \in CrowdedNames |-> <<>>],
      registry |-> [d \in CrowdedNames |-> <<1, 0, 0>>],
      closedIssues |-> [i \in 1..CrowdedRepo.numberOfContributors |->
                          [pull_request |-> FALSE, comments |-> 1,
                           responseTimeHours |-> CrowdedRepo.responseTimeMetrics]] ]

InitCrowded ==
    /\ pc = "start"
    /\ repoUrl = PlainUrl /\ githubToken \in BOOLEAN
    /\ world = CrowdedWorld
    \* one request of the run may fail
    /\ faults = MaxFaults - 1
    /\ requests = <<>> /\ local = <<>> /\ dependencyAnalysis = <<>>
    /\ result = [status |-> "pending"]
    /\ facts = <<>> /\ step = 0
    /\ riskScore = 0 /\ riskFactors = <<>> /\ riskRating = "unset"

SpecCrowded == InitCrowded /\ [][Next]_vars /\ WF_vars(Next)

(***************************************************************************)
(* The whole run on repositories that hold both a package.json and a       *)
(* requirements.txt, one of them possibly empty or malformed.              *)
(***************************************************************************)
Malformed == [present |-> TRUE, malformed |-> TRUE, deps |-> <<>>, devDeps |-> <<>>]

MixedManifests ==
    { [packageJson |-> pkg, requirements |-> req, others |-> {}] :
        pkg \in {File(<<Dep("express", "^", <<4, 17, 1>>)>>), File(<<>>), Malformed},
        req \in {File(<<Dep("requests", "==", <<2, 0, 0>>)>>), Malformed, NoFile} }

MixedWorlds ==
    { [ repo |-> HealthyRepo, manifest |-> manifest, alerts |-> NoAlerts,
        osv |-> [d \in DepNames |-> <<OsvVuln("GHSA-" \o d, <<"HIGH">>, Null, "")>>],
        registry |-> CHOOSE registry \in RegistryWorlds : TRUE ] :
        manifest \in MixedManifests }

InitManifests ==
    /\ pc = "start"
    /\ repoUrl = PlainUrl /\ githubToken = FALSE
    /\ world \in MixedWorlds
    /\ faults = 0 /\ requests = <<>> /\ local = <<>> /\ dependencyAnalysis = <<>>
    /\ result = [status |-> "pending"]
    /\ facts = <<>> /\ step = 0
    /\ riskScore = 0 /\ riskFactors = <<>> /\ riskRating = "unset"

SpecManifests == InitManifests /\ [][Next]_vars

(***************************************************************************)
(* determineSeverity (analyzer.js 1183-1217) applied to one record of the  *)
(* vulnerability index.                                                    *)
(***************************************************************************)
MaxSeverityEntries == 2

\* the type of an entry of the record's severity array
SeverityTypes == {"CVSS_V3", "critical", "HIGH", "medium", "low"}

SeverityArrays == UNION {[1..n -> SeverityTypes] : n \in 0..MaxSeverityEntries}

\* database_specific.cvss.score in tenths around the thresholds, Null
\* without database_specific.cvss
CvssScores == {Null, 0, 39, 40, 69, 70, 89, 90, 100}

\* database_specific.severity, "" when absent
DbSeverities == {"", "High", "LOW", "moderate", "critical", "medium"}

InitSeverity ==
    /\ pc = "determineSeverity"
    /\ \E types \in SeverityArrays, cvss \in CvssScores, dbSeverity \in DbSeverities :
          local = [vulnerability |-> OsvVuln("GHSA-0", types, cvss, dbSeverity)]
    /\ repoUrl = PlainUrl /\ githubToken = FALSE /\ world = BareWorld
    /\ faults = 0 /\ requests = <<>> /\ dependencyAnalysis = <<>>
    /\ result = [status |-> "pending"]
    /\ facts = <<>> /\ step = 0
    /\ riskScore = 0 /\ riskFactors = <<>> /\ riskRating = "unset"

\* severity: determineSeverity(vuln) (line 321)
DetermineSeverity ==
    /\ pc = "determineSeverity"
    /\ pc' = "severity"
    /\ local' = [severity |-> determineSeverity(local.vulnerability)] @@ local
    /\ UNCHANGED <<repoUrl, githubToken, world, faults, requests, dependencyAnalysis,
                   result, scoreVars>>

NextSeverity == DetermineSeverity

SpecSeverity == InitSeverity /\ [][NextSeverity]_vars

(***************************************************************************)
(* The two lookup loops request by request (analyzer.js 281-341 and        *)
(* 388-488).  batch.map starts the request of every dependency of the      *)
(* batch, the requests settle in any order, Promise.all resolves when all  *)
(* have settled, then comes the pause.  local.osvStatus and                *)
(* local.registryStatus give, per dependency, "idle" before its request,   *)
(* "inFlight" while it is out, and then how it settled.                    *)
(***************************************************************************)
BatchIndices(deps, size, k) == ((k - 1) * size + 1)..Min(k * size, Len(deps))

InFlight(status) == {i \in 1..Len(status) : status[i] = "inFlight"}

Idle(n) == [i \in 1..n |-> "idle"]

InitBatches ==
    /\ pc = "parsePackageJson"
    /\ repoUrl = PlainUrl /\ githubToken = FALSE
    /\ \E n \in {0, 1, NumLookupDeps} :
          world = [LookupWorld EXCEPT !.manifest.packageJson = File(Entries(n))]
    /\ faults = 0 /\ requests = <<>>
    /\ local = [ packageJsonResponse |-> "ok", requirementsResponse |-> "notFound",
                 mavenResponse |-> "notFound" ]
    /\ dependencyAnalysis = NewDependencyAnalysis(TRUE)
    /\ result = [status |-> "pending"]
    /\ facts = <<>> /\ step = 0
    /\ riskScore = 0 /\ riskFactors = <<>> /\ riskRating = "unset"

batchFrame == <<repoUrl, githubToken, world, result, scoreVars>>

\* lines 292-309: batch.map(async dep => ...) runs every callback up to its
\* await fetch
OsvIssue ==
    /\ pc = "osvBatch"
    /\ LET deps == dependencyAnalysis.parsedDependencies
           batch == BatchIndices(deps, osvBatchSize, local.osvBatch)
           before == IF "osvStatus" \in DOMAIN local THEN local.osvStatus ELSE Idle(Len(deps))
       IN  /\ requests' = requests \o Batch([i \in 1..Len(deps) |->
                                                OsvRequest(deps[i], local.osvEcosystem)],
                                            osvBatchSize, local.osvBatch)
           /\ local' = [osvStatus |-> [i \in 1..Len(deps) |->
                                          IF i \in batch THEN "inFlight" ELSE before[i]]]
                        @@ local
    /\ pc' = "osvAwait"
    /\ UNCHANGED <<faults, dependencyAnalysis, batchFrame>>

\* lines 296-333: one fetch settles; whatever its outcome, the callback returns
OsvSettle ==
    /\ pc = "osvAwait"
    /\ \E i \in InFlight(local.osvStatus), outcome \in {"ok", "error", "throw"} :
          /\ outcome # "ok" => faults < MaxFaults
          /\ faults' = IF outcome = "ok" THEN faults ELSE faults + 1
          /\ local' = [local EXCEPT !.osvStatus[i] = outcome]
    /\ UNCHANGED <<pc, requests, dependencyAnalysis, batchFrame>>

\* lines 336-337 with a Promise.all that gives up waiting when one request
\* has settled
OsvGatherFirstSettled ==
    /\ pc = "osvAwait"
    /\ LET deps == dependencyAnalysis.parsedDependencies
           batch == BatchIndices(deps, osvBatchSize, local.osvBatch)
           first == (local.osvBatch - 1) * osvBatchSize
           r == [j \in 1..Cardinality(batch) |->
                    IF local.osvStatus[first + j] = "inFlight" THEN "throw"
                    ELSE local.osvStatus[first + j]]
       IN  /\ \E i \in batch : local.osvStatus[i] # "inFlight"
           /\ local' = [local EXCEPT
                  !.osvResponses = @ \o r,
                  !.osvVulnerabilities =
                      @ \o Flat([j \in 1..Len(r) |->
                                   IF r[j] = "ok"
                                     THEN OsvFound(deps[first + j], local.osvEcosystem)
                                     ELSE <<>>])]
    /\ pc' = "osvPause"
    /\ UNCHANGED <<faults, requests, dependencyAnalysis, batchFrame>>

\* lines 336-337: await Promise.all(vulnerabilityPromises) and the concat
OsvGather ==
    /\ pc = "osvAwait"
    /\ LET deps == dependencyAnalysis.parsedDependencies
           batch == BatchIndices(deps, osvBatchSize, local.osvBatch)
           first == (local.osvBatch - 1) * osvBatchSize
           r == [j \in 1..Cardinality(batch) |-> local.osvStatus[first + j]]
       IN  /\ \A i \in batch : local.osvStatus[i] # "inFlight"
           /\ local' = [local EXCEPT
                  !.osvResponses = @ \o r,
                  !.osvVulnerabilities =
                      @ \o Flat([j \in 1..Len(r) |->
                                   IF r[j] = "ok"
                                     THEN OsvFound(deps[first + j], local.osvEcosystem)
                                     ELSE <<>>])]
    /\ pc' = "osvPause"
    /\ UNCHANGED <<faults, requests, dependencyAnalysis, batchFrame>>

\* lines 397-421: the registry requests of the batch start
RegistryIssue ==
    /\ pc = "registryBatch"
    /\ LET deps == dependencyAnalysis.parsedDependencies
           batch == BatchIndices(deps, registryBatchSize, local.registryBatch)
           before == IF "registryStatus" \in DOMAIN local THEN local.registryStatus
                     ELSE Idle(Len(deps))
       IN  /\ requests' = requests \o Batch([i \in 1..Len(deps) |->
                                                RegistryRequest(deps[i],
                                                                local.registryEcosystem)],
                                            registryBatchSize, local.registryBatch)
           /\ local' = [registryStatus |-> [i \in 1..Len(deps) |->
                                               IF i \in batch THEN "inFlight" ELSE before[i]]]
                        @@ local
    /\ pc' = "registryAwait"
    /\ UNCHANGED <<faults, dependencyAnalysis, batchFrame>>

\* lines 398-476: one registry request settles
RegistrySettle ==
    /\ pc = "registryAwait"
    /\ \E i \in InFlight(local.registryStatus), outcome \in {"ok", "error", "throw"} :
          /\ outcome # "ok" => faults < MaxFaults
          /\ faults' = IF outcome = "ok" THEN faults ELSE faults + 1
          /\ local' = [local EXCEPT !.registryStatus[i] = outcome]
    /\ UNCHANGED <<pc, requests, dependencyAnalysis, batchFrame>>

\* lines 479-484: await Promise.all(versionPromises) and the spread
RegistryGather ==
    /\ pc = "registryAwait"
    /\ LET deps == dependencyAnalysis.parsedDependencies
           batch == BatchIndices(deps, registryBatchSize, local.registryBatch)
           first == (local.registryBatch - 1) * registryBatchSize
           r == [j \in 1..Cardinality(batch) |-> local.registryStatus[first + j]]
       IN  /\ \A i \in batch : local.registryStatus[i] # "inFlight"
           /\ local' = [local EXCEPT !.registryResponses = @ \o r]
           /\ dependencyAnalysis' =
                 [dependencyAnalysis EXCEPT !.outdatedDependencies =
                     @ \o Flat([j \in 1..Len(r) |->
                                  IF r[j] = "ok"
                                    THEN Outdated(deps[first + j],
                                                  world.registry[deps[first + j].name])
                                    ELSE <<>>])]
    /\ pc' = "registryPause"
    /\ UNCHANGED <<faults, requests, batchFrame>>

NextBatches ==
    \/ ParsePackageJson \/ ParseRequirements
    \/ BeginOsv \/ OsvIssue \/ OsvSettle \/ OsvGather \/ OsvPause \/ OsvCount
    \/ BeginOutdated \/ RegistryIssue \/ RegistrySettle \/ RegistryGather \/ RegistryPause

SpecBatches == InitBatches /\ [][NextBatches]_vars

(***************************************************************************)
(* The entry points: the GitHub Action (action.ts, run and                 *)
(* commentOnPullRequest) and the command line (cli.ts, main).  A           *)
(* pull request sees a sequence of non-overlapping runs.  In this          *)
(* specification                                                           *)
(*   world     holds the inputs of the current run, the workflow context   *)
(*             and the comments of the pull request,                       *)
(*   requests  is the log of the calls the current run made to             *)
(*             @actions/core, fs, console and the issues API,              *)
(*   local     holds the run's local variables,                            *)
(*   result    is what the entry point ended with.                         *)
(***************************************************************************)
MaxRuns == 3

\* repositories named on the command line or in the `repository` input;
\* names may contain dots, as in the user-page repositories x.github.com
ActionRepos ==
    { [owner |-> <<"owner">>, name |-> <<"repo">>],
      [owner |-> <<"owner">>, name |-> <<"owner.", "github.com">>] }

UrlPrefix == <<"https:", "/", "/", "github.com", "/">>

Shorthand(r) == r.owner \o <<"/">> \o r.name

FullUrl(r) == UrlPrefix \o Shorthand(r)

WithGit(u) == u \o <<".git">>

Forms(r) == {Shorthand(r), WithGit(Shorthand(r)), FullUrl(r), WithGit(FullUrl(r))}

\* String.prototype.includes on a string cut into pieces
Includes(s, piece) == \E i \in 1..Len(s) : s[i] = piece

\* cli.ts 41-44
ExpandCli(arg) ==
    IF ~Includes(arg, "github.com") THEN UrlPrefix \o arg ELSE arg

\* action.ts 21-33
ExpandAction(repository, context) ==
    IF Includes(repository, "github.com") THEN repository
    ELSE IF Includes(repository, "/") THEN UrlPrefix \o repository
    ELSE UrlPrefix \o context.owner \o <<"/">> \o context.repo

\* what analyzeGitHubRepository(url) resolves with for a repository whose
\* collected data is profile; fetched tells whether the primary fetch
\* answered 200
AnalysisResultOf(url, profile, fetched) ==
    IF ~Match(url).matched THEN ErrorResult("Error: Invalid GitHub repository URL.")
    ELSE IF ~fetched THEN ErrorResult("Error fetching repository information")
    ELSE LET s == RunStatements(AsFacts(profile), NumStatements)
         IN  [ markdownSummary |-> <<"## GitHub Repository Analysis">>,
               riskScore |-> s.riskScore,
               riskRating |-> RatingOf(s.riskScore) ]

\* const owner = parts[1]; const repo = parts[2].replace(/\.git$/, '')
IdentityOf(url) ==
    LET parts == Match(url)
    IN  IF parts.matched THEN [owner |-> parts.owner, repo |-> StripGit(parts.repo)]
        ELSE [owner |-> <<>>, repo |-> <<>>]

\* how the awaited analysis ends
Outcomes ==
    { [kind |-> "scored", profile |-> HealthyRepo],
      [kind |-> "scored", profile |-> MinimalRepo],
      [kind |-> "notFetched", profile |-> MinimalRepo],
      [kind |-> "rejected", profile |-> MinimalRepo] }

DefaultInputs ==
    [ entry |-> "action", repository |-> <<"owner", "/", "repo">>, outputFile |-> "",
      commentOnPr |-> FALSE, commentMode |-> "update-existing", token |-> TRUE,
      outcome |-> [kind |-> "scored", profile |-> HealthyRepo] ]

\* the inputs of one run: the repository in each of its forms with the
\* other inputs at their defaults, or owner/repo with the other inputs varied
RunInputs ==
    { [DefaultInputs EXCEPT !.entry = e, !.repository = f] :
        e \in {"action", "cli"},
        f \in UNION {Forms(r) : r \in ActionRepos} \cup {<<>>} }
    \cup
    { [DefaultInputs EXCEPT !.outputFile = o, !.commentOnPr = c, !.commentMode = m,
                            !.token = t, !.outcome = a] :
        o \in {"", "report.md"}, c \in BOOLEAN,
        m \in {"update-existing", "create-new"}, t \in BOOLEAN, a \in Outcomes }
    \cup
    { [DefaultInputs EXCEPT !.entry = "cli", !.outputFile = o, !.outcome = a] :
        o \in {"", "report.md"}, a \in Outcomes }

\* octokit.rest.issues.listComments is called with owner, repo and
\* issue_number only (action.ts 132-136): it answers with the first page of
\* the comments, oldest first, and a page holds 30 comments by default
commentsPerPage == 30

FirstPage(comments) == SubSeq(comments, 1, Min(Len(comments), commentsPerPage))

\* const commentTag = '<!-- git-assure-comment -->'; a comment is kept as
\* whether its body includes the tag
Tagged == "tagged"

Other == "other"

Others(n) == [i \in 1..n |-> Other]

\* comments.find(comment => (comment.body ?? '').includes(commentTag))
FindTagged(comments) ==
    LET hits == {i \in 1..Len(comments) : comments[i] = Tagged}
    IN  IF hits = {} THEN 0 ELSE CHOOSE i \in hits : \A j \in hits : i <= j

NumTagged(comments) == Cardinality({i \in 1..Len(comments) : comments[i] = Tagged})

Call(call, name, value) == [call |-> call, name |-> name, value |-> value]

InitAction ==
    /\ pc = "idle"
    /\ repoUrl = <<>> /\ githubToken = FALSE
    /\ \E n \in {0, commentsPerPage}, tagged \in BOOLEAN, pr \in BOOLEAN :
          world = [ inputs |-> DefaultInputs,
                    context |-> [owner |-> <<"testowner">>, repo |-> <<"testrepo">>,
                                 pull_request |-> pr],
                    comments |-> IF tagged THEN <<Tagged>> ELSE Others(n),
                    startedTagged |-> tagged,
                    runs |-> 0, modes |-> {}, commented |-> 0 ]
    /\ faults = 0 /\ requests = <<>> /\ local = <<>> /\ dependencyAnalysis = <<>>
    /\ result = [status |-> "pending"]
    /\ facts = <<>> /\ step = 0
    /\ riskScore = 0 /\ riskFactors = <<>> /\ riskRating = "unset"

actionFrame == <<githubToken, dependencyAnalysis, scoreVars>>

\* the workflow (or the shell) starts the next run with its inputs
StartRun ==
    /\ pc = "idle" /\ world.runs < MaxRuns
    /\ \E inputs \in RunInputs :
          /\ world' = [world EXCEPT !.inputs = inputs, !.runs = @ + 1]
          /\ pc' = IF inputs.entry = "cli" THEN "main" ELSE "run"
    /\ requests' = <<>> /\ local' = <<>> /\ result' = [status |-> "pending"]
    /\ repoUrl' = <<>> /\ githubToken' = FALSE
    /\ UNCHANGED <<faults, dependencyAnalysis, scoreVars>>

\* the run is over; status is "ok", "failed" (core.setFailed) or "thrown"
EndRun(status, log) ==
    /\ pc' = "idle"
    /\ requests' = requests \o log
    /\ result' = [status |-> status]

\* action.ts 16-42: the inputs, the repository URL and the token
GetInputs ==
    /\ pc = "run"
    /\ repoUrl' = ExpandAction(world.inputs.repository, world.context)
    /\ githubToken' = world.inputs.token
    /\ pc' = "analyze"
    /\ local' = [commentOnPr |-> world.inputs.commentOnPr,
                 commentMode |-> world.inputs.commentMode,
                 outputFile |-> world.inputs.outputFile,
                 token |-> world.inputs.token]
    /\ UNCHANGED <<world, faults, requests, result, dependencyAnalysis, scoreVars>>

\* if (!analysisResult.riskRating) analysisResult.riskRating = 'N/A'
WithRating(r) ==
    IF "riskRating" \in DOMAIN r THEN r ELSE ("riskRating" :> "N/A") @@ r

\* action.ts 44-51 with the catch of 82-85, the analysis going on after a
\* rejection as if it had resolved without a result
AnalyzeIgnoringRejection ==
    /\ pc = "analyze"
    /\ LET outcome == world.inputs.outcome
       IN  IF outcome.kind = "rejected"
             THEN /\ local' = [ analysisResult |-> WithRating(ErrorResult("Analysis error")),
                                identity |-> IdentityOf(repoUrl) ] @@ local
                  /\ requests' = Append(requests,
                                        Call("setFailed", "", "Analysis failed: Analysis error"))
                  /\ pc' = "outputs"
                  /\ UNCHANGED result
             ELSE /\ local' = [ analysisResult |->
                                    WithRating(AnalysisResultOf(repoUrl, outcome.profile,
                                                                outcome.kind = "scored")),
                                identity |-> IdentityOf(repoUrl) ] @@ local
                  /\ pc' = "outputs"
                  /\ UNCHANGED <<requests, result>>
    /\ UNCHANGED <<repoUrl, world, faults, actionFrame>>

\* action.ts 44-51 with the catch of 82-85
Analyze ==
    /\ pc = "analyze"
    /\ LET outcome == world.inputs.outcome
       IN  IF outcome.kind = "rejected"
             THEN /\ EndRun("failed", <<Call("setFailed", "", "Analysis failed: Analysis error")>>)
                  /\ UNCHANGED local
             ELSE /\ local' = [ analysisResult |->
                                    WithRating(AnalysisResultOf(repoUrl, outcome.profile,
                                                                outcome.kind = "scored")),
                                identity |-> IdentityOf(repoUrl) ] @@ local
                  /\ pc' = "outputs"
                  /\ UNCHANGED <<requests, result>>
    /\ UNCHANGED <<repoUrl, world, faults, actionFrame>>

\* action.ts 53-56
SetOutputs ==
    /\ pc = "outputs"
    /\ requests' = requests \o
          << Call("setOutput", "risk-score", local.analysisResult.riskScore),
             Call("setOutput", "risk-rating", local.analysisResult.riskRating),
             Call("setOutput", "summary", local.analysisResult.markdownSummary) >>
    /\ pc' = "file"
    /\ UNCHANGED <<repoUrl, world, faults, local, result, actionFrame>>

\* action.ts 58-71 with the catch of 82-85: fs.writeFile resolves or rejects
SaveFile ==
    /\ pc = "file"
    /\ IF local.outputFile = ""
         THEN /\ pc' = "comment"
              /\ UNCHANGED <<requests, result, faults>>
         ELSE \/ /\ requests' = Append(requests,
                        Call("writeFile", local.outputFile, local.analysisResult.markdownSummary))
                 /\ pc' = "comment"
                 /\ UNCHANGED <<result, faults>>
              \/ /\ faults < MaxFaults
                 /\ faults' = faults + 1
                 /\ EndRun("failed", <<Call("setFailed", "", "Analysis failed: EACCES")>>)
    /\ UNCHANGED <<repoUrl, world, local, actionFrame>>

\* the outcomes of the calls commentOnPullRequest makes: each call
\* succeeds or throws
CommentFaults == {"none", "listComments", "updateComment", "createComment"}

\* action.ts 95-167: the comments after commentOnPullRequest, whether it
\* posted or updated one, and the calls it made
Commented(comments, commentMode, fault) ==
    LET existing == IF commentMode = "update-existing"
                      THEN FindTagged(FirstPage(comments)) ELSE 0
        Failed == [comments |-> comments, done |-> FALSE,
                   log |-> <<Call("warning", "", "Failed to comment on PR")>>]
    IN  IF commentMode = "update-existing" /\ fault = "listComments" THEN Failed
        ELSE IF existing # 0
          THEN IF fault = "updateComment" THEN Failed
               ELSE [comments |-> [comments EXCEPT ![existing] = Tagged], done |-> TRUE,
                     log |-> <<Call("updateComment", "", ToString(existing))>>]
          ELSE IF fault = "createComment" THEN Failed
               ELSE [comments |-> Append(comments, Tagged), done |-> TRUE,
                     log |-> <<Call("createComment", "", ToString(Len(comments) + 1))>>]

\* whether a call that commentOnPullRequest makes in this mode could fail
\* with this fault
FaultApplies(comments, commentMode, fault) ==
    LET existing == IF commentMode = "update-existing"
                      THEN FindTagged(FirstPage(comments)) ELSE 0
    IN  \/ fault = "none"
        \/ fault = "listComments" /\ commentMode = "update-existing"
        \/ fault = "updateComment" /\ existing # 0
        \/ fault = "createComment" /\ existing = 0

\* action.ts 73-81 and commentOnPullRequest
CommentOnPr ==
    /\ pc = "comment"
    /\ IF local.commentOnPr /\ local.token /\ world.context.pull_request
         THEN \E fault \in CommentFaults :
                 /\ FaultApplies(world.comments, local.commentMode, fault)
                 /\ fault # "none" => faults < MaxFaults
                 /\ faults' = IF fault = "none" THEN faults ELSE faults + 1
                 /\ LET c == Commented(world.comments, local.commentMode, fault)
                    IN  /\ world' = [world EXCEPT
                                !.comments = c.comments,
                                !.modes = @ \cup {local.commentMode},
                                !.commented = IF c.done THEN @ + 1 ELSE @]
                        /\ EndRun("ok", c.log)
         ELSE /\ EndRun("ok", <<>>)
              /\ UNCHANGED <<world, faults>>
    /\ UNCHANGED <<repoUrl, local, actionFrame>>

\* cli.ts 10-65: main
CliMain ==
    /\ pc = "main"
    /\ LET arg == world.inputs.repository
           url == ExpandCli(arg)
           outcome == world.inputs.outcome
           analysisResult == AnalysisResultOf(url, outcome.profile, outcome.kind = "scored")
           Score == Call("log", "Overall Risk Score", analysisResult.riskScore)
       IN  IF arg = <<>>
             THEN /\ EndRun("thrown", <<Call("error", "", "Error: Please provide a GitHub repository URL or owner/repo.")>>)
                  /\ UNCHANGED <<repoUrl, local, faults>>
             ELSE /\ repoUrl' = url
                  /\ IF outcome.kind = "rejected"
                       THEN /\ EndRun("thrown", <<Call("error", "", "Error during analysis: Analysis error")>>)
                            /\ UNCHANGED <<local, faults>>
                       ELSE /\ local' = [analysisResult |-> analysisResult,
                                         identity |-> IdentityOf(url)]
                            /\ IF world.inputs.outputFile = ""
                                 THEN /\ EndRun("ok", <<Call("log", "", analysisResult.markdownSummary), Score>>)
                                      /\ UNCHANGED faults
                                 ELSE \/ /\ EndRun("ok", <<Call("writeFile", world.inputs.outputFile,
                                                                analysisResult.markdownSummary), Score>>)
                                         /\ UNCHANGED faults
                                      \/ /\ faults < MaxFaults
                                         /\ faults' = faults + 1
                                         /\ EndRun("thrown", <<Call("error", "", "Error during analysis: EACCES")>>)
    /\ UNCHANGED <<world, actionFrame>>

NextAction ==
    \/ StartRun \/ GetInputs \/ Analyze \/ SetOutputs \/ SaveFile \/ CommentOnPr \/ CliMain

SpecAction == InitAction /\ [][NextAction]_vars

(***************************************************************************)
(* Properties of the run.                                                  *)
(***************************************************************************)
IdentityParsed == Match(repoUrl).matched

\* the primary fetch has ended, and how
PrimaryEnded == IdentityParsed /\ pc \notin {"start", "repoInfo"}

PrimaryOk == PrimaryEnded /\ local.repoInfoResponse = "ok"

PrimaryNotOk == PrimaryEnded /\ local.repoInfoResponse # "ok"

Returned == pc = "done"

\* the run returned from the last line of the try block
Completed == Returned /\ "riskRating" \in DOMAIN result

IsOsvRequest(request) == request.host = "api.osv.dev"

\* C2: a run whose input holds no github.com/<owner>/<repo> identity, or
\* whose primary repository fetch ends with a non-success status, returns
\* the score 'N/A', the rating 'N/A' and a one-line error message.
C2_ErrorResultAsStated ==
    Returned /\ (~IdentityParsed \/ (PrimaryEnded /\ local.repoInfoResponse \in {"notFound", "error"}))
        => /\ result.riskScore = "N/A"
           /\ Len(result.markdownSummary) = 1
           /\ "riskRating" \in DOMAIN result
           /\ result.riskRating = "N/A"

\* C3: when the identity cannot be parsed no request is ever issued, and
\* when the primary repository fetch does not succeed the primary request
\* is the only request of the run.
C3_NoRequestAfterFailure ==
    /\ [](~IdentityParsed => requests = <<>>)
    /\ [](PrimaryNotOk => requests = <<GitHubRequest("", "")>> /\ Returned)
    /\ [][IsPrefixOf(requests, requests')]_vars

C3_Witness ==
    /\ Returned /\ PrimaryNotOk /\ local.repoInfoResponse = "error"
    /\ Len(requests) = 1 /\ result.riskScore = "N/A"

\* C4: once the primary fetch has succeeded, whatever the auxiliary
\* requests answer, the run returns a completed result with a rating of
\* Low, Medium or High and never the 'N/A' result.
C4_AlwaysCompletes ==
    Returned /\ PrimaryOk
        => /\ "riskRating" \in DOMAIN result
           /\ result.riskRating \in {"Low", "Medium", "High"}
           /\ result.riskScore = riskScore

NoAdvisoryData ==
    \/ ~githubToken
    \/ local.alertsResponse # "noContent"
    \/ local.dependabotAlertsResponse # "ok"

\* C9: in a completed run without advisory-alert data in which the
\* vulnerability index returned at least one vulnerability, the severity
\* counts, the vulnerable-package list and the vulnerability source show
\* what the index returned.
C9_IndexResultsReflected ==
    Completed /\ NoAdvisoryData /\ Len(local.osvVulnerabilities) > 0
        => /\ dependencyAnalysis.vulnerabilitySource = "OSV"
           /\ Len(dependencyAnalysis.vulnerablePackages) = Len(local.osvVulnerabilities)
           /\ dependencyAnalysis.highSeverityCount
                  = CountSeverity(local.osvVulnerabilities, "HIGH")
           /\ dependencyAnalysis.mediumSeverityCount
                  = CountSeverity(local.osvVulnerabilities, "MEDIUM")
           /\ dependencyAnalysis.lowSeverityCount
                  = CountSeverity(local.osvVulnerabilities, "LOW")

AdvisoryAlertsFound ==
    /\ githubToken
    /\ local.alertsResponse = "noContent" /\ local.dependabotAlertsResponse = "ok"
    /\ Len(world.alerts.alerts) > 0

\* C10: in a completed run whose advisory-alerts listing answered with at
\* least one alert, no request goes to the vulnerability index.
C10_IndexLookupSuppressed ==
    Completed /\ AdvisoryAlertsFound
        => \A i \in 1..Len(requests) : ~IsOsvRequest(requests[i])

OutdatedCounted == pc = "tests"

Behind(record, part) ==
    Coerce(record.latestVersion)[part] > Coerce(record.currentVersion)[part]

Level(record, part) ==
    Coerce(record.latestVersion)[part] = Coerce(record.currentVersion)[part]

Buckets(record) ==
    {b \in {"major", "minor", "patch"} :
        \/ b = "major" /\ record.isMajorBehind
        \/ b = "minor" /\ record.isMinorBehind
        \/ b = "patch" /\ record.isPatchBehind}

MajorOutdated ==
    {i \in 1..Len(dependencyAnalysis.outdatedDependencies) :
        dependencyAnalysis.outdatedDependencies[i].updateUrgency = "high"}

MinorOutdated ==
    {i \in 1..Len(dependencyAnalysis.outdatedDependencies) :
        dependencyAnalysis.outdatedDependencies[i].updateUrgency = "medium"}

\* C11: an outdated record is major-behind with urgency 'high' exactly when
\* the latest major exceeds the current one, whatever minor and patch are,
\* minor-behind with urgency 'medium' only at equal major, patch-behind
\* with urgency 'low' only at equal major and minor; it is in exactly one
\* bucket, and the two counts count disjoint sets of records.
C11_OneBucketPerRecord ==
    /\ \A i \in 1..Len(dependencyAnalysis.outdatedDependencies) :
          LET record == dependencyAnalysis.outdatedDependencies[i]
          IN  /\ record.isMajorBehind = Behind(record, 1)
              /\ record.isMinorBehind = (Level(record, 1) /\ Behind(record, 2))
              /\ record.isPatchBehind
                    = (Level(record, 1) /\ Level(record, 2) /\ Behind(record, 3))
              /\ Cardinality(Buckets(record)) = 1
              /\ record.updateUrgency
                    = (CASE record.isMajorBehind -> "high"
                         [] record.isMinorBehind -> "medium"
                         [] OTHER -> "low")
    /\ OutdatedCounted
          => /\ dependencyAnalysis.majorOutdatedCount = Cardinality(MajorOutdated)
             /\ dependencyAnalysis.minorOutdatedCount = Cardinality(MinorOutdated)
             /\ MajorOutdated \cap MinorOutdated = {}

\* express went from 1.2 to 2.0.1, a lower minor at a higher major, beside
\* a lodash that is one minor version behind
C11_Witness ==
    /\ OutdatedCounted
    /\ Len(dependencyAnalysis.outdatedDependencies) = 2
    /\ dependencyAnalysis.outdatedDependencies[1].currentVersion = <<1, 2>>
    /\ dependencyAnalysis.outdatedDependencies[1].latestVersion = <<2, 0, 1>>
    /\ dependencyAnalysis.majorOutdatedCount = 1
    /\ dependencyAnalysis.minorOutdatedCount = 1

ManifestsParsed == pc = "osv"

RECURSIVE DistinctNames(_, _)
\* the names of the entries in the order of their first entry
DistinctNames(entries, seen) ==
    IF entries = <<>> THEN <<>>
    ELSE IF Head(entries).name \in seen THEN DistinctNames(Tail(entries), seen)
    ELSE <<Head(entries).name>>
         \o DistinctNames(Tail(entries), seen \cup {Head(entries).name})

\* the dependencies the parsed manifest declares, in declaration order:
\* the names under dependencies and then devDependencies, or the lines of
\* requirements.txt that give a name, an operator and a version
DeclaredNames ==
    IF world.manifest.packageJson.present
      THEN DistinctNames(world.manifest.packageJson.deps
                            \o world.manifest.packageJson.devDeps, {})
      ELSE DistinctNames(SelectSeq(world.manifest.requirements.deps,
                                   LAMBDA line : line.prefix \in {"==", ">=", "~="}), {})

ParsedNames ==
    [i \in 1..Len(dependencyAnalysis.parsedDependencies) |->
        dependencyAnalysis.parsedDependencies[i].name]

ProbeStages ==
    { [stage |-> "dependencyFiles", responses |-> "dependencyFileResponses",
       flag |-> "hasDependencyFile"],
      [stage |-> "tests", responses |-> "testDirResponses", flag |-> "hasTestDirectory"],
      [stage |-> "ci", responses |-> "ciConfigResponses", flag |-> "hasCiSetup"],
      [stage |-> "docs", responses |-> "docsResponses", flag |-> "hasDocDirectory"],
      [stage |-> "quality", responses |-> "codeQualityResponses",
       flag |-> "hasCodeQualityTools"],
      [stage |-> "security", responses |-> "securityFileResponses",
       flag |-> "hasSecurityPolicy"] }

Flags == {probe.flag : probe \in ProbeStages}

\* the probes of the category went out and the run goes on with the flag
\* set from the responses, every other flag as it was
ProbedAsAbsence(probe) ==
    /\ pc' # "done"
    /\ Len(requests') > Len(requests)
    /\ local'[probe.flag] = (\E i \in DOMAIN local'[probe.responses] :
                                local'[probe.responses][i] = "ok")
    /\ \A flag \in (Flags \cap DOMAIN local) : local'[flag] = local[flag]

\* C13: a category's flag is true iff one of its candidate probes returns
\* success; a probe that returns an error status or fails is an absent
\* candidate: the batch and the run go on and no other flag changes.
C13_FailedProbeIsAbsent ==
    [][\A probe \in ProbeStages : pc = probe.stage => ProbedAsAbsence(probe)]_vars

Rated == pc = "rated"

HasFactor(msg) == \E i \in 1..Len(riskFactors) : riskFactors[i].msg = msg

\* no license, no test directory, no CI configuration, no README, no docs
\* directory, exactly one contributor and no star
BareSoloProject ==
    /\ facts.license = "Unknown"
    /\ ~facts.hasTestDirectory /\ ~facts.hasCiSetup
    /\ ~facts.hasReadme /\ ~facts.hasDocDirectory
    /\ facts.numberOfContributors = 1
    /\ facts.starCount = 0

BareSoloFactors ==
    { "No license found.", "No test directory found.", "No CI/CD configuration found.",
      "No README file found.", "Limited documentation.", "Low number of contributors.",
      "Low community interest (few stars)." }

\* C14 as stated: such a repository scores at least 13 and is rated 'Medium'.
C14_MediumAsStated ==
    Rated /\ BareSoloProject => riskScore >= 13 /\ riskRating = "Medium"

\* C14: such a repository has the seven factors of the scenario and scores
\* at least 13; it is rated 'Medium' while the score is at most 15 and
\* 'High' above, never 'Low'.
C14_AtLeastThirteen ==
    Rated /\ BareSoloProject
        => /\ \A msg \in BareSoloFactors : HasFactor(msg)
           /\ riskScore >= 13
           /\ (riskRating = "Medium") = (riskScore <= 15)
           /\ (riskRating = "High") = (riskScore > 15)

C14_Witness == Rated /\ BareSoloProject /\ riskScore = 16 /\ riskRating = "High"

\* MIT license, README, tests, CI and docs present, at least 10
\* contributors, a commit within 30 days, a semver-tagged release within a
\* year and no vulnerability counted
WellKeptProject ==
    /\ facts.license = "MIT License"
    /\ facts.hasReadme /\ facts.hasTestDirectory /\ facts.hasCiSetup /\ facts.hasDocDirectory
    /\ facts.numberOfContributors >= 10
    /\ facts.daysSinceLastCommit # Null /\ facts.daysSinceLastCommit <= 30
    /\ facts.releaseInfo.hasReleases /\ facts.releaseInfo.usesSemanticVersioning
    /\ facts.releaseInfo.daysSinceLastRelease <= 365
    /\ CountOf(facts.dependencyAnalysis.highSeverityCount) = 0
    /\ CountOf(facts.dependencyAnalysis.mediumSeverityCount) = 0
    /\ CountOf(facts.dependencyAnalysis.lowSeverityCount) = 0

\* the factors of the rules the scenario speaks about
WellKeptExcluded ==
    { "Low number of contributors.", "Relatively low number of contributors.",
      "Infrequent recent contributions.", "Potentially infrequent recent contributions.",
      "No license found.", "Restrictive license may limit usage.",
      "License has some usage restrictions.", "No test directory found.",
      "No CI/CD configuration found.", "No README file found.", "Limited documentation.",
      "No formal releases found.", "No releases in over a year.",
      "Not using semantic versioning.", "n high severity vulnerabilities found.",
      "n medium severity vulnerabilities found.", "n low severity vulnerabilities found." }

\* C15 as stated: such a repository is rated 'Low'.
C15_LowAsStated ==
    Rated /\ WellKeptProject => riskRating = "Low"

\* C15: such a repository gets no factor from the rules on contributors,
\* commits, license, tests, CI, README, docs, releases and
\* vulnerabilities, and is rated 'Low' exactly when the factors of the
\* other rules add up to at most 10.
C15_LowUnlessOtherFactors ==
    Rated /\ WellKeptProject
        => /\ \A msg \in WellKeptExcluded : ~HasFactor(msg)
           /\ (riskRating = "Low") = (SumWeights(riskFactors) <= 10)

C15_Witness ==
    /\ Rated /\ WellKeptProject
    /\ riskScore = 10 /\ riskRating = "Low" /\ Len(riskFactors) >= 6

(***************************************************************************)
(* Properties of the entry points.                                         *)
(***************************************************************************)
RunEnded == pc = "idle" /\ world.runs > 0

Analysed == "identity" \in DOMAIN local

EndsWithGit(name) == name # <<>> /\ name[Len(name)] = ".git"

\* C16 as stated: whichever of the four forms (owner/repo, full URL, either
\* with a trailing .git) names a repository, on the command line or in the
\* action, the analysis derives that repository's owner and name, both
\* non-empty and the name without a .git suffix.
C16_SameIdentityAsStated ==
    \A r \in ActionRepos :
        Analysed /\ world.inputs.repository \in Forms(r)
            => /\ local.identity = [owner |-> r.owner, repo |-> r.name]
               /\ local.identity.owner # <<>> /\ local.identity.repo # <<>>
               /\ ~EndsWithGit(local.identity.repo)

\* the runs that reached the comment step so far were all in this mode
OnlyMode(mode) == world.modes = {mode}

\* C17 as stated: on a pull request that started without a tagged comment
\* and whose runs commented in update-existing mode only, there is exactly
\* one tagged comment once a run has posted or updated its comment.
C17_OneTaggedCommentAsStated ==
    RunEnded /\ ~world.startedTagged /\ OnlyMode("update-existing") /\ world.commented >= 1
        => NumTagged(world.comments) = 1

RejectedActionRun ==
    RunEnded /\ world.inputs.entry = "action" /\ world.inputs.outcome.kind = "rejected"

\* C18: an action run whose analysis rejected made one call only, the
\* setFailed with 'Analysis failed: <message>': it set no output, wrote no
\* file and neither posted nor updated a comment.
C18_RejectionOnlyFails ==
    RejectedActionRun
        => /\ result.status = "failed"
           /\ Len(requests) = 1
           /\ requests[1].call = "setFailed"
           /\ requests[1].value = "Analysis failed: Analysis error"

C18_Witness ==
    /\ RejectedActionRun /\ result.status = "failed"
    /\ world.inputs.outputFile # "" /\ world.inputs.commentOnPr
    /\ world.inputs.token /\ world.context.pull_request

Published ==
    \E i \in 1..Len(requests) :
        requests[i].call = "setOutput" /\ requests[i].name = "risk-score"

\* C19 as stated: the risk-score output the action publishes is a number
\* from 0 to 10.
C19_ScoreWithinTenAsStated ==
    Published
        => /\ local.analysisResult.riskRating # "N/A"
           /\ local.analysisResult.riskScore \in 0..10

(***************************************************************************)
(* Properties of the dependency lookups.                                   *)
(***************************************************************************)
Answered(responses) == {i \in 1..Len(responses) : responses[i] = "ok"}

\* dependency i, looked up with these responses so far, has its record in
\* the list exactly when its lookup was answered
KeptIffAnswered(responses, names) ==
    /\ \A i \in 1..Len(responses) :
          (i \in Answered(responses))
              = (\E k \in 1..Len(names) :
                    names[k] = dependencyAnalysis.parsedDependencies[i].name)
    /\ Len(names) = Cardinality(Answered(responses))

LookupFaults ==
    (Len(local.osvResponses) - Cardinality(Answered(local.osvResponses)))
    + (Len(local.registryResponses) - Cardinality(Answered(local.registryResponses)))

LookupsDone ==
    /\ "registryResponses" \in DOMAIN local
    /\ Len(local.registryResponses) = Len(dependencyAnalysis.parsedDependencies)

\* C20: of the dependencies looked up so far, in this batch and the ones
\* before, the vulnerability list holds the record of exactly those whose
\* index query was answered and the outdated list the record of exactly
\* those whose registry request was answered; and a run in which nothing
\* but lookups failed returns a scored result.
C20_OnlyFailedLookupOmitted ==
    /\ "osvResponses" \in DOMAIN local
          => KeptIffAnswered(local.osvResponses,
                             [k \in 1..Len(local.osvVulnerabilities) |->
                                 local.osvVulnerabilities[k].package])
    /\ "registryResponses" \in DOMAIN local
          => KeptIffAnswered(local.registryResponses,
                             [k \in 1..Len(dependencyAnalysis.outdatedDependencies) |->
                                 dependencyAnalysis.outdatedDependencies[k].name])
    /\ (Returned /\ LookupsDone /\ faults = LookupFaults) => Completed

C20_Witness ==
    /\ Completed /\ LookupsDone
    /\ local.osvResponses[2] = "throw"
    /\ Len(local.osvVulnerabilities) = NumLookupDeps - 1
    /\ local.osvVulnerabilities[NumLookupDeps - 1].package = "pkg" \o ToString(NumLookupDeps)
    /\ Len(dependencyAnalysis.outdatedDependencies) = NumLookupDeps

(***************************************************************************)
(* Properties of determineSeverity.                                        *)
(***************************************************************************)
SeverityDetermined == pc = "severity"

Labels == {"CRITICAL", "HIGH", "MEDIUM", "LOW"}

\* the labels among the types of the record's severity array
ArrayLabels ==
    {ToUpperCase(local.vulnerability.severity[i]) :
        i \in 1..Len(local.vulnerability.severity)} \cap Labels

Highest(labels) ==
    IF "CRITICAL" \in labels THEN "CRITICAL"
    ELSE IF "HIGH" \in labels THEN "HIGH"
    ELSE IF "MEDIUM" \in labels THEN "MEDIUM" ELSE "LOW"

FromCvss(score) ==
    IF score >= 90 THEN "CRITICAL" ELSE IF score >= 70 THEN "HIGH"
    ELSE IF score >= 40 THEN "MEDIUM" ELSE "LOW"

\* C21 as stated: the label of the record's severity array; otherwise the
\* CVSS score by its thresholds; otherwise MEDIUM.
C21_SeverityOrderAsStated ==
    SeverityDetermined
        => local.severity =
              IF ArrayLabels # {} THEN Highest(ArrayLabels)
              ELSE IF local.vulnerability.cvss # Null THEN FromCvss(local.vulnerability.cvss)
              ELSE "MEDIUM"

\* C21: the highest label among the types of the record's severity array;
\* otherwise the database-specific CVSS score by its thresholds; otherwise
\* the database-specific severity label when it is one of the four;
\* otherwise MEDIUM; the outcome is always one of the four labels.
C21_SeverityOrder ==
    SeverityDetermined
        => /\ local.severity \in Labels
           /\ local.severity =
                 IF ArrayLabels # {} THEN Highest(ArrayLabels)
                 ELSE IF local.vulnerability.cvss # Null
                   THEN FromCvss(local.vulnerability.cvss)
                 ELSE IF ToUpperCase(local.vulnerability.dbSeverity) \in Labels
                   THEN ToUpperCase(local.vulnerability.dbSeverity)
                 ELSE "MEDIUM"

C21_Witness ==
    /\ SeverityDetermined /\ ArrayLabels = {}
    /\ local.vulnerability.cvss = 39 /\ local.vulnerability.dbSeverity = "High"
    /\ local.severity = "LOW"

(***************************************************************************)
(* Properties of the manifests.                                            *)
(***************************************************************************)
\* the names package.json yields: none when it was not fetched or is malformed
PackageJsonNames ==
    IF local.packageJsonResponse = "ok" /\ ~world.manifest.packageJson.malformed
      THEN DistinctNames(world.manifest.packageJson.deps
                            \o world.manifest.packageJson.devDeps, {})
      ELSE <<>>

\* the names requirements.txt yields
RequirementsNames ==
    IF local.requirementsResponse = "ok" /\ ~world.manifest.requirements.malformed
      THEN DistinctNames(SelectSeq(world.manifest.requirements.deps,
                                   LAMBDA line : line.prefix # ""), {})
      ELSE <<>>

\* C22: once the manifests are parsed the dependency list is the one of
\* package.json when that yields a dependency and the one of
\* requirements.txt otherwise, a malformed manifest yielding none; and a
\* run in which no request failed returns a scored result, whatever the
\* manifests hold.
C22_PackageJsonFirst ==
    /\ ManifestsParsed
          => ParsedNames = IF PackageJsonNames # <<>> THEN PackageJsonNames
                           ELSE RequirementsNames
    /\ (Returned /\ PrimaryOk /\ faults = 0) => Completed

C22_Witness ==
    /\ Completed /\ faults = 0
    /\ world.manifest.packageJson.malformed
    /\ Len(dependencyAnalysis.parsedDependencies) = 1
    /\ dependencyAnalysis.parsedDependencies[1].name = "requests"

(***************************************************************************)
(* Further properties of the risk-score section.                           *)
(***************************************************************************)
\* C23 as stated: a repository that has releases whose latest tag is not
\* semver-formatted gets the factor 'Not using semantic versioning.',
\* whether or not that release is older than 365 days.
C23_SemverFactorAsStated ==
    Rated /\ facts.releaseInfo.hasReleases /\ ~facts.releaseInfo.usesSemanticVersioning
        => HasFactor("Not using semantic versioning.")

LicenseFactors ==
    { "No license found.", "Restrictive license may limit usage.",
      "License has some usage restrictions." }

\* the license factors of the list, one entry per push
LicenseFactorsPushed == SelectSeq(Messages(riskFactors), LAMBDA msg : msg \in LicenseFactors)

IsPermissive == LicenseSubstrings(facts.license) \cap permissiveLicenses # {}

IsRestrictive ==
    ~IsPermissive /\ LicenseSubstrings(facts.license) \cap restrictiveLicenses # {}

IsProprietary ==
    /\ ~IsPermissive /\ ~IsRestrictive
    /\ "Proprietary" \in LicenseSubstrings(facts.license) \/ facts.license = "UNLICENSED"

\* at most one license factor, and none or this one
OnlyLicenseFactor(msgs) == Len(LicenseFactorsPushed) <= 1 /\ LicenseFactorsPushed = msgs

\* C24 as stated: no license adds 3, a license of the GPL/AGPL/LGPL/MPL
\* family adds 2, a license of neither list adds 1, a permissive license
\* adds nothing and has license risk 'Low'.
C24_LicenseOutcomeAsStated ==
    Rated =>
        /\ SumWeights(SelectSeq(riskFactors, LAMBDA factor : factor.msg \in LicenseFactors))
              = IF facts.license = "Unknown" THEN 3
                ELSE IF IsPermissive THEN 0
                ELSE IF IsRestrictive THEN 2
                ELSE 1
        /\ IsPermissive => facts.licenseRisk = "Low"

\* C24: exactly one license outcome applies: no license pushes 'No license
\* found.' (+3); a license naming Proprietary, or UNLICENSED, pushes
\* 'Restrictive license may limit usage.' (+2); a license of the
\* GPL/AGPL/LGPL/MPL family, or one matching no list, pushes 'License has
\* some usage restrictions.' (+1); a permissive license pushes no license
\* factor and has license risk 'Low'.
C24_LicenseOutcome ==
    Rated =>
        /\ OnlyLicenseFactor(
              IF facts.license = "Unknown" THEN <<"No license found.">>
              ELSE IF IsPermissive THEN <<>>
              ELSE IF IsProprietary THEN <<"Restrictive license may limit usage.">>
              ELSE <<"License has some usage restrictions.">>)
        /\ FactorWeight("No license found.") = 3
        /\ FactorWeight("Restrictive license may limit usage.") = 2
        /\ FactorWeight("License has some usage restrictions.") = 1
        /\ IsPermissive => facts.licenseRisk = "Low"

C24_Witness ==
    /\ Rated /\ facts.license = "GNU GPLv3" /\ IsRestrictive
    /\ HasFactor("License has some usage restrictions.")

(***************************************************************************)
(* Properties of the lookup loops.                                         *)
(***************************************************************************)
OsvInFlight == IF "osvStatus" \in DOMAIN local THEN InFlight(local.osvStatus) ELSE {}

RegistryInFlight ==
    IF "registryStatus" \in DOMAIN local THEN InFlight(local.registryStatus) ELSE {}

IsRegistryRequest(request) == request.host \in {"registry.npmjs.org", "pypi.org"}

\* the vulnerability stage is over: every dependency's query has settled
\* and the stage's last pause has elapsed
OsvStageOver ==
    /\ pc \in {"osvCount", "outdated", "registryBatch", "registryAwait", "registryPause", "tests"}
    /\ OsvInFlight = {}
    /\ "osvResponses" \in DOMAIN local
          => Len(local.osvResponses) = Len(dependencyAnalysis.parsedDependencies)

BoundedInFlight ==
    /\ Cardinality(OsvInFlight) <= osvBatchSize
    /\ Cardinality(RegistryInFlight) <= registryBatchSize
    /\ OsvInFlight = {} \/ RegistryInFlight = {}
    /\ (\E i \in 1..Len(requests) : IsRegistryRequest(requests[i])) => OsvStageOver

\* a step that issues requests starts one batch, with nothing in flight,
\* and the place where a batch starts is entered from the start of the
\* stage or from the pause only
BatchAfterBatch ==
    /\ Len(requests') > Len(requests)
          => /\ OsvInFlight = {} /\ RegistryInFlight = {}
             /\ pc \in {"osvBatch", "registryBatch"}
             /\ Len(requests') - Len(requests)
                   <= IF pc = "osvBatch" THEN osvBatchSize ELSE registryBatchSize
    /\ pc' = "osvBatch" /\ pc # "osvBatch" => pc \in {"osv", "osvPause"}
    /\ pc' = "registryBatch" /\ pc # "registryBatch" => pc \in {"outdated", "registryPause"}

\* C25: at most 10 vulnerability queries or 5 registry requests are in
\* flight at any time, never both kinds; the requests of a batch are
\* issued only when every request of the batch before has settled and the
\* pause has elapsed; and a registry request is issued only after the
\* manifests are parsed and the vulnerability stage is over.
C25_OneBatchInFlight == []BoundedInFlight /\ [][BatchAfterBatch]_vars

C25_Witness ==
    /\ pc = "registryAwait" /\ local.registryBatch = 3
    /\ Cardinality(RegistryInFlight) = 1
    /\ Len(local.osvResponses) = NumLookupDeps
    /\ faults = MaxFaults

(***************************************************************************)
(* Properties of the request volume.                                       *)
(***************************************************************************)
IsProfileRequest(request) == request.host = "api.github.com" /\ request.path = "/users"

IsCommentsRequest(request) == request.host = "api.github.com" /\ request.path = "/comments"

NumProfileRequests == Cardinality({i \in 1..Len(requests) : IsProfileRequest(requests[i])})

NumOsvRequests == Cardinality({i \in 1..Len(requests) : IsOsvRequest(requests[i])})

NumRegistryRequests ==
    Cardinality({i \in 1..Len(requests) : IsRegistryRequest(requests[i])})

NumCommentsRequests ==
    Cardinality({i \in 1..Len(requests) : IsCommentsRequest(requests[i])})

NoRequestTwice ==
    \A i, j \in 1..Len(requests) : requests[i] = requests[j] => i = j

RequestCaps ==
    /\ NumProfileRequests <= 10
    /\ NumOsvRequests <= 20
    /\ NumRegistryRequests <= 20
    /\ NumCommentsRequests <= 10

\* C26: when every request completes or fails, the run returns; no
\* request is issued twice, and the run fetches at most 10 contributor
\* profiles, issues at most 20 vulnerability queries and 20 registry
\* requests, and fetches the comments of at most 10 closed issues.
C26_BoundedRun == <>Returned /\ [](NoRequestTwice /\ RequestCaps)

C26_Witness ==
    /\ Completed /\ faults = MaxFaults
    /\ world.repo.numberOfContributors > 10 /\ NumProfileRequests = 10
    /\ Len(world.manifest.packageJson.deps) > 20
    /\ NumOsvRequests = 20 /\ NumRegistryRequests = 20
    /\ Len(world.closedIssues) > 10 /\ NumCommentsRequests = 10

(***************************************************************************)
(* Properties of the ecosystem of the lookups.                             *)
(***************************************************************************)
\* the dependency list is the one parsed from requirements.txt
ParsedFromRequirements ==
    /\ "packageJsonResponse" \in DOMAIN local
    /\ PackageJsonNames = <<>>
    /\ RequirementsNames # <<>>

\* C27 as stated: dependencies parsed from requirements.txt are looked up
\* as PyPI packages, in the vulnerability index and in the registry, also
\* when a package.json exists that yielded no dependency.
C27_LookedUpAsPyPIAsStated ==
    ParsedFromRequirements
      => \A i \in 1..Len(requests) :
            /\ IsOsvRequest(requests[i]) => requests[i].ecosystem = "PyPI"
            /\ IsRegistryRequest(requests[i]) => requests[i].host = "pypi.org"

(***************************************************************************)
(* Properties of the severity counts.                                      *)
(***************************************************************************)
\* vulnerability records were found and are reported
VulnerabilitiesReported ==
    /\ "vulnerablePackages" \in DOMAIN dependencyAnalysis
    /\ dependencyAnalysis.vulnerablePackages # <<>>

\* C28 as stated: whenever vulnerability records are reported, the high,
\* medium and low counts add up to the number of records found, a record
\* of CRITICAL severity included.
C28_EveryRecordCountedAsStated ==
    VulnerabilitiesReported
      => dependencyAnalysis.highSeverityCount + dependencyAnalysis.mediumSeverityCount
            + dependencyAnalysis.lowSeverityCount
         = Len(dependencyAnalysis.vulnerablePackages)

(***************************************************************************)
(* Properties of the credential.                                           *)
(***************************************************************************)
IsGitHubRequest(request) == request.host = "api.github.com"

\* C29: in a run with a token, every request to the GitHub API carries
\* the Authorization header, and no request to the vulnerability index or
\* to a package registry carries it.
C29_TokenOnlyToGitHub ==
    githubToken
      => \A i \in 1..Len(requests) :
            /\ IsGitHubRequest(requests[i]) => requests[i].auth
            /\ IsOsvRequest(requests[i]) \/ IsRegistryRequest(requests[i])
                  => ~requests[i].auth
            /\ IsGitHubRequest(requests[i]) \/ IsOsvRequest(requests[i])
                  \/ IsRegistryRequest(requests[i])

C29_Witness ==
    /\ githubToken /\ Completed
    /\ \E i \in 1..Len(requests) :
          IsGitHubRequest(requests[i]) /\ requests[i].path = "/dependabot/alerts?state=open"
    /\ \E i \in 1..Len(requests) : IsOsvRequest(requests[i])
    /\ \E i \in 1..Len(requests) : IsRegistryRequest(requests[i])

====
